---- MODULE Spec2Model ----
(***************************************************************************)
(* Model of the Superops documentation parser (src/parser.ts, whose full   *)
(* text is the second half of src/unnamed/part_003) and of the search the  *)
(* MCP server runs over the parsed catalog (src/unnamed/part_002).         *)
(*                                                                         *)
(* Texts are TLA+ strings, taken apart with Len, SubSeq and \o.  A         *)
(* document is the sequence of sibling elements the parser walks with      *)
(* cheerio's next(); a cheerio selection is the set of the positions of    *)
(* its elements, in document order.                                        *)
(***************************************************************************)
EXTENDS Integers, Sequences, FiniteSets, TLC

(***************************************************************************)
(* JavaScript strings                                                      *)
(***************************************************************************)
Lowers == "abcdefghijklmnopqrstuvwxyz"
Uppers == "ABCDEFGHIJKLMNOPQRSTUVWXYZ"
Digits == "0123456789"

\* s.charAt(i): the empty string outside the string.
Ch(s, i) == IF i >= 1 /\ i <= Len(s) THEN SubSeq(s, i, i) ELSE ""

CharsOf(alphabet) == {Ch(alphabet, i) : i \in 1..Len(alphabet)}

IndexIn(alphabet, c) == CHOOSE i \in 1..Len(alphabet) : Ch(alphabet, i) = c

LowerChars == CharsOf(Lowers)
UpperChars == CharsOf(Uppers)
DigitChars == CharsOf(Digits)
WordChars == LowerChars \cup UpperChars \cup DigitChars \cup {"_"}
SpaceChars == {" ", "\n", "\t"}

LowerOf == [c \in UpperChars |-> Ch(Lowers, IndexIn(Uppers, c))]
UpperOf == [c \in LowerChars |-> Ch(Uppers, IndexIn(Lowers, c))]

IsSpace(c) == c \in SpaceChars

IsAlpha(c) == c \in LowerChars \/ c \in UpperChars

IsDigit(c) == c \in DigitChars

IsWordChar(c) == c \in WordChars

toLowerChar(c) == IF c \in UpperChars THEN LowerOf[c] ELSE c

toUpperChar(c) == IF c \in LowerChars THEN UpperOf[c] ELSE c

RECURSIVE LowerFrom(_, _)
LowerFrom(s, i) ==
  IF i > Len(s) THEN "" ELSE toLowerChar(SubSeq(s, i, i)) \o LowerFrom(s, i + 1)

toLowerCase(s) == LowerFrom(s, 1)

RECURSIVE UpperFrom(_, _)
UpperFrom(s, i) ==
  IF i > Len(s) THEN "" ELSE toUpperChar(SubSeq(s, i, i)) \o UpperFrom(s, i + 1)

toUpperCase(s) == UpperFrom(s, 1)

\* String.prototype.trim: strip the leading and the trailing white space.
trim(s) ==
  LET keep == {i \in 1..Len(s) : ~IsSpace(Ch(s, i))}
  IN IF keep = {} THEN ""
     ELSE SubSeq(s, CHOOSE i \in keep : \A j \in keep : i <= j,
                    CHOOSE i \in keep : \A j \in keep : i >= j)

startsWith(s, p) == Len(p) <= Len(s) /\ SubSeq(s, 1, Len(p)) = p

endsWith(s, p) == Len(p) <= Len(s) /\ SubSeq(s, Len(s) - Len(p) + 1, Len(s)) = p

includes(s, p) ==
  \E i \in 1..(Len(s) - Len(p) + 1) : SubSeq(s, i, i + Len(p) - 1) = p

\* The first position at or after i whose character is not white space
\* (Len(s)+1 when there is none): the greedy \s* of a regular expression.
RECURSIVE SkipSpaces(_, _)
SkipSpaces(s, i) ==
  IF i <= Len(s) /\ IsSpace(Ch(s, i)) THEN SkipSpaces(s, i + 1) ELSE i

\* The first position at or after i whose character is not a word character:
\* the greedy [A-Za-z0-9_]* of a regular expression.
RECURSIVE SkipWord(_, _)
SkipWord(s, i) ==
  IF i <= Len(s) /\ IsWordChar(Ch(s, i)) THEN SkipWord(s, i + 1) ELSE i

(***************************************************************************)
(* Optional values: <<>> is JavaScript's undefined, <<v>> a set property.  *)
(***************************************************************************)
None == <<>>

Some(v) == <<v>>

(***************************************************************************)
(* The document: the sibling elements, in order.  An element has a tag and *)
(* a text; a table has the rows of its tbody, each the texts of its td     *)
(* cells, and its text() is the concatenation of the texts of the cells.   *)
(***************************************************************************)
El(tag, text) == [tag |-> tag, text |-> text, rows |-> <<>>]

Table(rows) == [tag |-> "table", text |-> "", rows |-> rows]

RECURSIVE ConcatAll(_)
ConcatAll(strs) ==
  IF Len(strs) = 0 THEN "" ELSE Head(strs) \o ConcatAll(Tail(strs))

RECURSIVE RowsText(_)
RowsText(rows) ==
  IF Len(rows) = 0 THEN "" ELSE ConcatAll(Head(rows)) \o RowsText(Tail(rows))

ElementText(n) == IF n.tag = "table" THEN RowsText(n.rows) ELSE n.text

\* cheerio's .length, .is(selector), .next() and .text() on a selection,
\* the set sel of positions of d.  is() holds when some element of the
\* selection matches; next() is the next sibling of each element; text() is
\* the concatenation of the texts of the elements, in document order.
Is(d, sel, tags) == \E i \in sel : d[i].tag \in tags

NextSel(d, sel) == {i + 1 : i \in sel} \cap (1..Len(d))

RECURSIVE TextFrom(_, _, _)
TextFrom(d, sel, i) ==
  IF i > Len(d) THEN ""
  ELSE (IF i \in sel THEN ElementText(d[i]) ELSE "") \o TextFrom(d, sel, i + 1)

TextOf(d, sel) == TextFrom(d, sel, 1)

\* $(table).find('tbody tr'): the rows of every table of the selection.
RECURSIVE RowsFrom(_, _, _)
RowsFrom(d, sel, i) ==
  IF i > Len(d) THEN <<>>
  ELSE (IF i \in sel THEN d[i].rows ELSE <<>>) \o RowsFrom(d, sel, i + 1)

RowsOf(d, sel) == RowsFrom(d, sel, 1)

\* this.$('h2').filter(el => $(el).text().trim().toLowerCase() === title)
SectionSel(d, title) ==
  {i \in 1..Len(d) : d[i].tag = "h2" /\ toLowerCase(trim(d[i].text)) = title}

(***************************************************************************)
(* Table Parser                                                            *)
(***************************************************************************)
\* nameTypeCell.match(/^([a-zA-Z_][a-zA-Z0-9_]*)\s*-\s*(.+)$/): None, or the
\* two captured groups.  The greedy \s* after the dash gives a character
\* back to (.+) only when nothing else is left; '.' matches no line break.
nameTypeMatch(s) ==
  IF ~(IsAlpha(Ch(s, 1)) \/ Ch(s, 1) = "_") THEN None
  ELSE LET k == SkipWord(s, 2)
           a == SkipSpaces(s, k)
           b == SkipSpaces(s, a + 1)
           from == IF b <= Len(s) THEN b ELSE b - 1
           typeInfo == SubSeq(s, from, Len(s))
       IN IF Ch(s, a) # "-" THEN None
          ELSE IF from <= a \/ includes(typeInfo, "\n") THEN None
          ELSE Some([name |-> SubSeq(s, 1, k - 1), typeInfo |-> typeInfo])

\* ArgumentRow keeping a row whose first cell is not of the pattern, as a
\* record without a name.
ArgumentRow_EmptyName(cells, match) ==
  IF Len(cells) >= 2
  THEN IF match # None
       THEN << [name |-> match[1].name,
                type |-> trim(match[1].typeInfo),
                description |-> trim(cells[2]),
                required |-> includes(match[1].typeInfo, "!")] >>
       ELSE << [name |-> "", type |-> "", description |-> trim(cells[2]),
                required |-> FALSE] >>
  ELSE <<>>

\* ArgumentRow taking a type to be required when it ends with "!".
ArgumentRow_RequiredSuffix(cells, match) ==
  IF Len(cells) >= 2 /\ match # None
  THEN << [name |-> match[1].name,
           type |-> trim(match[1].typeInfo),
           description |-> trim(cells[2]),
           required |-> endsWith(trim(match[1].typeInfo), "!")] >>
  ELSE <<>>

\* The body of the rows' each(): what one row pushes, given the match of
\* its first cell.
ArgumentRow(cells, match) ==
  IF Len(cells) >= 2 /\ match # None
  THEN << [name |-> match[1].name,
           type |-> trim(match[1].typeInfo),
           description |-> trim(cells[2]),
           required |-> includes(match[1].typeInfo, "!")] >>
  ELSE <<>>

RECURSIVE ArgumentRows(_)
ArgumentRows(rows) ==
  IF Len(rows) = 0 THEN <<>>
  ELSE ArgumentRow(Head(rows), nameTypeMatch(trim(Head(rows)[1])))
       \o ArgumentRows(Tail(rows))

parseArgumentsTable(d, table) == ArgumentRows(RowsOf(d, table))

parseFieldsTable(d, table) == ArgumentRows(RowsOf(d, table))

\* EnumRows with the two-cell test of the field tables.
RECURSIVE EnumRows_TwoCells(_)
EnumRows_TwoCells(rows) ==
  IF Len(rows) = 0 THEN <<>>
  ELSE LET cells == Head(rows)
       IN (IF Len(cells) >= 2 /\ trim(cells[1]) # ""
           THEN << [name |-> trim(cells[1]), description |-> Some(trim(cells[2]))] >>
           ELSE <<>>) \o EnumRows_TwoCells(Tail(rows))

RECURSIVE EnumRows(_)
EnumRows(rows) ==
  IF Len(rows) = 0 THEN <<>>
  ELSE LET cells == Head(rows)
       IN (IF Len(cells) >= 1 /\ trim(cells[1]) # ""
           THEN << [name |-> trim(cells[1]),
                    description |-> IF Len(cells) > 1 THEN Some(trim(cells[2]))
                                    ELSE None] >>
           ELSE <<>>) \o EnumRows(Tail(rows))

parseEnumValuesTable(d, table) == EnumRows(RowsOf(d, table))

(***************************************************************************)
(* Kind Inferencer                                                         *)
(***************************************************************************)
ScalarNames == {"String", "Int", "Float", "Boolean", "ID", "JSON"}

\* inferTypeKind with the scalar list tested before the upper-case rule.
inferTypeKind_ScalarFirst(typeName) ==
  IF endsWith(typeName, "Input") THEN "INPUT_OBJECT"
  ELSE IF typeName \in ScalarNames THEN "SCALAR"
  ELSE IF endsWith(typeName, "Enum") \/ toUpperCase(typeName) = typeName THEN "ENUM"
  ELSE "OBJECT"

\* inferTypeKind with the upper-case rule kept for names of more than two
\* letters.
inferTypeKind_LongUpperCase(typeName) ==
  IF endsWith(typeName, "Input") THEN "INPUT_OBJECT"
  ELSE IF endsWith(typeName, "Enum")
          \/ (toUpperCase(typeName) = typeName /\ Len(typeName) > 2) THEN "ENUM"
  ELSE IF typeName \in ScalarNames THEN "SCALAR"
  ELSE "OBJECT"

inferTypeKind(typeName) ==
  IF endsWith(typeName, "Input") THEN "INPUT_OBJECT"
  ELSE IF endsWith(typeName, "Enum") \/ toUpperCase(typeName) = typeName THEN "ENUM"
  ELSE IF typeName \in ScalarNames THEN "SCALAR"
  ELSE "OBJECT"

(***************************************************************************)
(* JSON.parse.  A decoded value is held as its canonical JSON text (what   *)
(* JSON.stringify gives back), so that the string decoded from "\"a\"" and *)
(* the raw text a, kept when decoding fails, are the same value, as they   *)
(* are in JavaScript.  The grammar covers objects, arrays, strings without *)
(* escape sequences, integers and the three literals.                      *)
(***************************************************************************)
JFail == [ok |-> FALSE, pos |-> 0, out |-> ""]

JOk(pos, out) == [ok |-> TRUE, pos |-> pos, out |-> out]

RECURSIVE SkipDigits(_, _)
SkipDigits(s, i) ==
  IF i <= Len(s) /\ IsDigit(Ch(s, i)) THEN SkipDigits(s, i + 1) ELSE i

\* The position of the quote closing the string opened before i, 0 if the
\* string is not closed, holds a control character or holds a backslash.
RECURSIVE ClosingQuote(_, _)
ClosingQuote(s, i) ==
  IF i > Len(s) \/ Ch(s, i) \in {"\n", "\t", "\\"} THEN 0
  ELSE IF Ch(s, i) = "\"" THEN i
  ELSE ClosingQuote(s, i + 1)

JString(s, i) ==
  LET q == ClosingQuote(s, i + 1)
  IN IF Ch(s, i) = "\"" /\ q # 0 THEN JOk(q + 1, SubSeq(s, i, q)) ELSE JFail

JNumber(s, i) ==
  LET d == IF Ch(s, i) = "-" THEN i + 1 ELSE i
      e == IF Ch(s, d) = "0" THEN d + 1 ELSE SkipDigits(s, d)
  IN IF e = d \/ Ch(s, e) \in {".", "e", "E"} THEN JFail
     ELSE JOk(e, IF SubSeq(s, i, e - 1) = "-0" THEN "0" ELSE SubSeq(s, i, e - 1))

\* The items m of an object or an array, between open and close.
JEnclosed(s, m, open, close) ==
  IF m.ok /\ Ch(s, m.pos) = close THEN JOk(m.pos + 1, open \o m.out \o close)
  ELSE JFail

\* The literal that is the word s[i..e-1], or the number at i.
JLiteral(s, i, e) ==
  IF SubSeq(s, i, e - 1) \in {"null", "true", "false"}
  THEN JOk(e, SubSeq(s, i, e - 1))
  ELSE JNumber(s, i)

RECURSIVE JValue(_, _), JElements(_, _), JMembers(_, _)
JValue(s, i) ==
  LET c == Ch(s, i)
      j == SkipSpaces(s, i + 1)
  IN IF c = "{"
     THEN IF Ch(s, j) = "}" THEN JOk(j + 1, "{}")
          ELSE JEnclosed(s, JMembers(s, j), "{", "}")
     ELSE IF c = "["
     THEN IF Ch(s, j) = "]" THEN JOk(j + 1, "[]")
          ELSE JEnclosed(s, JElements(s, j), "[", "]")
     ELSE IF c = "\"" THEN JString(s, i)
     ELSE JLiteral(s, i, SkipWord(s, i))

\* The item read (a value, or a key, a colon and a value) joined to the items
\* rest that follow its comma.
JJoin(item, rest) ==
  IF rest.ok THEN JOk(rest.pos, item \o "," \o rest.out) ELSE JFail

\* What follows the value v of an array.
JAfterElement(s, v) ==
  LET q == SkipSpaces(s, v.pos)
  IN IF ~v.ok THEN JFail
     ELSE IF Ch(s, q) # "," THEN JOk(q, v.out)
     ELSE JJoin(v.out, JElements(s, SkipSpaces(s, q + 1)))

JElements(s, i) == JAfterElement(s, JValue(s, i))

\* What follows the value v of the key k of an object.
JAfterMember(s, k, v) ==
  LET q == SkipSpaces(s, v.pos)
  IN IF ~v.ok THEN JFail
     ELSE IF Ch(s, q) # "," THEN JOk(q, k.out \o ":" \o v.out)
     ELSE JJoin(k.out \o ":" \o v.out, JMembers(s, SkipSpaces(s, q + 1)))

\* What follows the key k of an object.
JAfterKey(s, k) ==
  LET c == SkipSpaces(s, k.pos)
  IN IF ~k.ok \/ Ch(s, c) # ":" THEN JFail
     ELSE JAfterMember(s, k, JValue(s, SkipSpaces(s, c + 1)))

JMembers(s, i) == JAfterKey(s, JString(s, i))

\* The value v when nothing but white space follows it.
JWhole(text, v) ==
  IF v.ok /\ SkipSpaces(text, v.pos) = Len(text) + 1 THEN Some(v.out) ELSE None

\* JSON.parse(text): None when it throws a SyntaxError.
JSONParse(text) == JWhole(text, JValue(text, SkipSpaces(text, 1)))

\* The canonical JSON text of the JavaScript string s.
RECURSIVE Escaped(_)
Escaped(s) ==
  IF Len(s) = 0 THEN ""
  ELSE (CASE Ch(s, 1) = "\"" -> "\\\""
          [] Ch(s, 1) = "\\" -> "\\\\"
          [] Ch(s, 1) = "\n" -> "\\n"
          [] Ch(s, 1) = "\t" -> "\\t"
          [] OTHER -> Ch(s, 1)) \o Escaped(SubSeq(s, 2, Len(s)))

JSString(s) == "\"" \o Escaped(s) \o "\""

\* JSONOrText with a catch block that stores null.
JSONOrText_NullOnFailure(parsed, text) == IF parsed # None THEN parsed[1] ELSE "null"

\* try { x = JSON.parse(text) } catch { x = text }
JSONOrText(parsed, text) == IF parsed # None THEN parsed[1] ELSE JSString(text)

parseJSON(text) == JSONOrText(JSONParse(text), text)

(***************************************************************************)
(* Example Extractor                                                       *)
(***************************************************************************)
Headings == {"h3", "h2"}

CodeTags == {"pre", "code"}

\* ExampleStep taking the query from the next node whatever its tag.
ExampleStep_NoCodeTest(ex, text, isCode, code) ==
  IF includes(text, "query")
    THEN [ex EXCEPT !.query = Some(code)]
  ELSE IF includes(text, "variables") /\ isCode
    THEN [ex EXCEPT !.variables = Some(parseJSON(code))]
  ELSE IF includes(text, "response") /\ isCode
    THEN [ex EXCEPT !.response = Some(parseJSON(code))]
  ELSE ex

\* The body of the while loop of parseExample: text is the lower-cased text
\* of the current element, isCode tells whether the next one is pre or code,
\* code is the trimmed text of the next one.
ExampleStep(ex, text, isCode, code) ==
  IF includes(text, "query") /\ isCode
    THEN [ex EXCEPT !.query = Some(code)]
  ELSE IF includes(text, "variables") /\ isCode
    THEN [ex EXCEPT !.variables = Some(parseJSON(code))]
  ELSE IF includes(text, "response") /\ isCode
    THEN [ex EXCEPT !.response = Some(parseJSON(code))]
  ELSE ex

\* The while loop of parseExample; ex is the example built so far.
RECURSIVE ExampleLoop(_, _, _)
ExampleLoop(d, currentElement, ex) ==
  IF currentElement = {} \/ Is(d, currentElement, Headings) THEN ex
  ELSE ExampleLoop(d, NextSel(d, currentElement),
         ExampleStep(ex, toLowerCase(TextOf(d, currentElement)),
                     Is(d, NextSel(d, currentElement), CodeTags),
                     trim(TextOf(d, NextSel(d, currentElement)))))

parseExample(d, element) ==
  ExampleLoop(d, NextSel(d, element),
              [query |-> Some(""), variables |-> None, response |-> None])

(***************************************************************************)
(* Operation Extractor.  Each scan gives back the cursor it leaves, the    *)
(* value it found, the selection the value was read from (src) and every   *)
(* position the cursor stood on (seen).                                    *)
(***************************************************************************)
Scan(cur, val, src, seen) == [cur |-> cur, val |-> val, src |-> src, seen |-> seen]

\* returnText.match(/returns?\s+an?\s+([A-Za-z0-9_]+)/i) tried at position
\* i: None, or the captured identifier.  low is s in lower case, for the
\* i flag.
returnMatchIn(s, low, i) ==
  LET j == IF Ch(low, i + 6) = "s" THEN i + 7 ELSE i + 6
      k == SkipSpaces(s, j)
      m == IF Ch(low, k + 1) = "n" /\ IsSpace(Ch(s, k + 2)) THEN k + 2 ELSE k + 1
      w == SkipSpaces(s, m)
      e == SkipWord(s, w)
  IN IF i + 5 <= Len(s) /\ SubSeq(low, i, i + 5) = "return"
        /\ IsSpace(Ch(s, j)) /\ Ch(low, k) = "a" /\ IsSpace(Ch(s, m)) /\ e > w
     THEN Some(SubSeq(s, w, e - 1)) ELSE None

returnMatchAt(s, i) == returnMatchIn(s, toLowerCase(s), i)

\* The match at the leftmost of the positions at.
Leftmost(s, at) ==
  IF at = {} THEN None ELSE returnMatchAt(s, CHOOSE i \in at : \A j \in at : i <= j)

returnMatch(s) == Leftmost(s, {i \in 1..Len(s) : returnMatchAt(s, i) # None})

\* DescriptionStep with includes() in place of startsWith().
DescriptionStep_Includes(d, first) ==
  IF Is(d, first, {"p"}) /\ includes(toLowerCase(TextOf(d, first)), "description")
  THEN LET second == NextSel(d, first)
       IN IF Is(d, second, {"p"})
          THEN Scan(NextSel(d, second), Some(trim(TextOf(d, second))), second,
                    first \cup second \cup NextSel(d, second))
          ELSE Scan(second, None, {}, first \cup second)
  ELSE Scan(first, None, {}, first)

\* if (p && startsWith('description')) { next; if (p) { description; next } }
DescriptionStep(d, first) ==
  IF Is(d, first, {"p"}) /\ startsWith(toLowerCase(TextOf(d, first)), "description")
  THEN LET second == NextSel(d, first)
       IN IF Is(d, second, {"p"})
          THEN Scan(NextSel(d, second), Some(trim(TextOf(d, second))), second,
                    first \cup second \cup NextSel(d, second))
          ELSE Scan(second, None, {}, first \cup second)
  ELSE Scan(first, None, {}, first)

\* ReturnTypeLoop going on to the later nodes when the pattern does not match.
RECURSIVE ReturnTypeLoop_UntilMatch(_, _)
ReturnTypeLoop_UntilMatch(d, currentElement) ==
  IF currentElement = {} \/ Is(d, currentElement, Headings)
  THEN Scan(currentElement, None, {}, currentElement)
  ELSE LET text == toLowerCase(TextOf(d, currentElement))
           nxt == NextSel(d, currentElement)
           rest == ReturnTypeLoop_UntilMatch(d, nxt)
       IN IF (includes(text, "response") \/ includes(text, "returns"))
             /\ returnMatch(TextOf(d, currentElement)) # None
          THEN Scan(nxt, returnMatch(TextOf(d, currentElement)), currentElement,
                    currentElement \cup nxt)
          ELSE [rest EXCEPT !.seen = currentElement \cup rest.seen]

RECURSIVE ReturnTypeLoop(_, _)
ReturnTypeLoop(d, currentElement) ==
  IF currentElement = {} \/ Is(d, currentElement, Headings)
  THEN Scan(currentElement, None, {}, currentElement)
  ELSE LET text == toLowerCase(TextOf(d, currentElement))
           nxt == NextSel(d, currentElement)
           rest == ReturnTypeLoop(d, nxt)
       IN IF includes(text, "response") \/ includes(text, "returns")
          THEN Scan(nxt, returnMatch(TextOf(d, currentElement)), currentElement,
                    currentElement \cup nxt)
          ELSE [rest EXCEPT !.seen = currentElement \cup rest.seen]

RECURSIVE ArgumentsLoop(_, _)
ArgumentsLoop(d, currentElement) ==
  IF currentElement = {} \/ Is(d, currentElement, Headings)
  THEN Scan(currentElement, None, {}, currentElement)
  ELSE LET nxt == NextSel(d, currentElement)
           after == NextSel(d, nxt)
           rest == ArgumentsLoop(d, nxt)
           restAfter == ArgumentsLoop(d, after)
       IN IF Is(d, currentElement, {"table"})
          THEN Scan(nxt, Some(parseArgumentsTable(d, currentElement)), currentElement,
                    currentElement \cup nxt)
          ELSE IF includes(toLowerCase(TextOf(d, currentElement)), "arguments")
          THEN IF Is(d, nxt, {"table"})
               THEN Scan(after, Some(parseArgumentsTable(d, nxt)), nxt,
                         currentElement \cup nxt \cup after)
               ELSE [restAfter EXCEPT !.seen = currentElement \cup nxt \cup restAfter.seen]
          ELSE [rest EXCEPT !.seen = currentElement \cup rest.seen]

\* The positions parseExample's own cursor stands on.
RECURSIVE ExampleSeen(_, _)
ExampleSeen(d, currentElement) ==
  IF currentElement = {} \/ Is(d, currentElement, Headings) THEN currentElement
  ELSE currentElement \cup ExampleSeen(d, NextSel(d, currentElement))

RECURSIVE ExampleScan(_, _)
ExampleScan(d, currentElement) ==
  IF currentElement = {} \/ Is(d, currentElement, Headings)
  THEN Scan(currentElement, None, {}, currentElement)
  ELSE LET rest == ExampleScan(d, NextSel(d, currentElement))
       IN IF includes(toLowerCase(TextOf(d, currentElement)), "example")
          THEN Scan(currentElement, Some(parseExample(d, currentElement)), currentElement,
                    currentElement \cup ExampleSeen(d, NextSel(d, currentElement)))
          ELSE [rest EXCEPT !.seen = currentElement \cup rest.seen]

\* The four steps of parseOperation on the heading selection element, each
\* starting where the one before left the cursor.
ScansAfterArguments(d, desc, ret, args) ==
  [description |-> desc, returnType |-> ret, arguments |-> args,
   example |-> ExampleScan(d, args.cur)]

\* ScansAfterReturnType with an arguments scan that starts again after the
\* description.
ScansAfterReturnType_Restart(d, desc, ret) ==
  ScansAfterArguments(d, desc, ret, ArgumentsLoop(d, desc.cur))

ScansAfterReturnType(d, desc, ret) ==
  ScansAfterArguments(d, desc, ret, ArgumentsLoop(d, ret.cur))

ScansAfterDescription(d, desc) ==
  ScansAfterReturnType(d, desc, ReturnTypeLoop(d, desc.cur))

OperationScans(d, element) ==
  ScansAfterDescription(d, DescriptionStep(d, NextSel(d, element)))

\* OperationFrom without the test of the empty name.
OperationFrom_KeepsUnnamed(name, type, scans) ==
  Some([name |-> name,
        type |-> type,
        description |-> scans.description.val,
        returnType |-> scans.returnType.val,
        arguments |-> scans.arguments.val,
        example |-> scans.example.val])

\* The operation of the given name, built from what the scans found; None
\* is the null of an entry whose heading text is empty.
OperationFrom(name, type, scans) ==
  IF name = "" THEN None
  ELSE Some([name |-> name,
             type |-> type,
             description |-> scans.description.val,
             returnType |-> scans.returnType.val,
             arguments |-> scans.arguments.val,
             example |-> scans.example.val])

parseOperation(d, element, type) ==
  OperationFrom(trim(TextOf(d, element)), type, OperationScans(d, element))

(***************************************************************************)
(* Type Extractor                                                          *)
(***************************************************************************)
RECURSIVE FieldsLoop(_, _)
FieldsLoop(d, currentElement) ==
  IF currentElement = {} \/ Is(d, currentElement, Headings)
  THEN Scan(currentElement, None, {}, currentElement)
  ELSE LET text == toLowerCase(TextOf(d, currentElement))
           nxt == NextSel(d, currentElement)
           after == NextSel(d, nxt)
           rest == FieldsLoop(d, nxt)
           restAfter == FieldsLoop(d, after)
       IN IF Is(d, currentElement, {"table"})
          THEN Scan(currentElement, Some(currentElement), currentElement, currentElement)
          ELSE IF includes(text, "fields") \/ includes(text, "values")
          THEN IF Is(d, nxt, {"table"})
               THEN Scan(nxt, Some(nxt), nxt, currentElement \cup nxt)
               ELSE [restAfter EXCEPT !.seen = currentElement \cup nxt \cup restAfter.seen]
          ELSE [rest EXCEPT !.seen = currentElement \cup rest.seen]

ScansAfterTypeDescription(d, desc) ==
  [description |-> desc, table |-> FieldsLoop(d, desc.cur)]

TypeScans(d, element) ==
  ScansAfterTypeDescription(d, DescriptionStep(d, NextSel(d, element)))

\* TypeFrom filling fields from the table whatever the kind.
TypeFrom_BothTables(d, name, kind, scans) ==
  IF name = "" THEN None
  ELSE Some([name |-> name,
             kind |-> kind,
             description |-> scans.description.val,
             fields |-> IF scans.table.val # None
                        THEN Some(parseFieldsTable(d, scans.table.val[1])) ELSE None,
             enumValues |-> IF scans.table.val # None /\ kind = "ENUM"
                            THEN Some(parseEnumValuesTable(d, scans.table.val[1]))
                            ELSE None])

\* The type of the given name and kind, built from what the scans found.
TypeFrom(d, name, kind, scans) ==
  IF name = "" THEN None
  ELSE Some([name |-> name,
             kind |-> kind,
             description |-> scans.description.val,
             fields |-> IF scans.table.val # None /\ kind # "ENUM"
                        THEN Some(parseFieldsTable(d, scans.table.val[1])) ELSE None,
             enumValues |-> IF scans.table.val # None /\ kind = "ENUM"
                            THEN Some(parseEnumValuesTable(d, scans.table.val[1]))
                            ELSE None])

parseType(d, element) ==
  TypeFrom(d, trim(TextOf(d, element)), inferTypeKind(trim(TextOf(d, element))),
           TypeScans(d, element))

(***************************************************************************)
(* The plain JavaScript object the parser fills (queries[name] = ...): the *)
(* sequence of its own properties in the order Object.keys, Object.values  *)
(* and Object.entries list them, which is array-index keys in ascending    *)
(* numeric order, then the other keys in the order they were created.      *)
(***************************************************************************)
\* a < b for two strings of digits of the same length.
RECURSIVE DigitsLess(_, _)
DigitsLess(a, b) ==
  IF Len(a) = 0 THEN FALSE
  ELSE IF Ch(a, 1) # Ch(b, 1) THEN IndexIn(Digits, Ch(a, 1)) < IndexIn(Digits, Ch(b, 1))
  ELSE DigitsLess(SubSeq(a, 2, Len(a)), SubSeq(b, 2, Len(b)))

\* a < b as numbers, for two canonical numeric strings.
IndexLess(a, b) == Len(a) < Len(b) \/ (Len(a) = Len(b) /\ DigitsLess(a, b))

\* The largest array index, 2^32 - 2.
MaxArrayIndex == "4294967294"

\* A canonical numeric string naming an array index.
IsArrayIndex(k) ==
  /\ Len(k) >= 1
  /\ \A i \in 1..Len(k) : IsDigit(Ch(k, i))
  /\ (k = "0" \/ Ch(k, 1) # "0")
  /\ (k = MaxArrayIndex \/ IndexLess(k, MaxArrayIndex))

Keys(obj) == [i \in 1..Len(obj) |-> obj[i].key]

Values(obj) == [i \in 1..Len(obj) |-> obj[i].value]

HasKey(obj, key) == \E i \in 1..Len(obj) : obj[i].key = key

Get(obj, key) == obj[CHOOSE i \in 1..Len(obj) : obj[i].key = key].value

\* obj[key] = value, value an object.  Assigning to "__proto__" runs the
\* setter inherited from Object.prototype and creates no own property.
ObjSet(obj, key, value) ==
  LET entry == [key |-> key, value |-> value]
      before == Cardinality({i \in 1..Len(obj) :
                   IsArrayIndex(obj[i].key) /\ IndexLess(obj[i].key, key)})
  IN IF key = "__proto__" THEN obj
     ELSE IF HasKey(obj, key)
     THEN [i \in 1..Len(obj) |-> IF obj[i].key = key THEN entry ELSE obj[i]]
     ELSE IF IsArrayIndex(key)
     THEN SubSeq(obj, 1, before) \o <<entry>> \o SubSeq(obj, before + 1, Len(obj))
     ELSE Append(obj, entry)

(***************************************************************************)
(* Section Scanner and parseAll                                            *)
(***************************************************************************)
\* while (currentElement.length && !currentElement.is('h2')) {
\*   if (currentElement.is('h3')) { ... }  currentElement = next }
\* of parseQueries and parseMutations.
\* if (currentElement.is('h3')) { const e = parse(...); if (e) obj[e.name] = e }
SetParsed(obj, isEntry, entity) ==
  IF isEntry /\ entity # None THEN ObjSet(obj, entity[1].name, entity[1]) ELSE obj

RECURSIVE OperationsLoop(_, _, _, _)
OperationsLoop(d, currentElement, type, operations) ==
  IF currentElement = {} \/ Is(d, currentElement, {"h2"}) THEN operations
  ELSE OperationsLoop(d, NextSel(d, currentElement), type,
         SetParsed(operations, Is(d, currentElement, {"h3"}),
                   parseOperation(d, currentElement, type)))

parseQueries(d) ==
  LET queriesSection == SectionSel(d, "queries")
  IN IF queriesSection # {}
     THEN OperationsLoop(d, NextSel(d, queriesSection), "query", <<>>)
     ELSE <<>>

parseMutations(d) ==
  LET mutationsSection == SectionSel(d, "mutations")
  IN IF mutationsSection # {}
     THEN OperationsLoop(d, NextSel(d, mutationsSection), "mutation", <<>>)
     ELSE <<>>

\* while (currentElement.length) { if (is('h3')) { ... } next } of parseTypes
RECURSIVE TypesLoop(_, _, _)
TypesLoop(d, currentElement, types) ==
  IF currentElement = {} THEN types
  ELSE TypesLoop(d, NextSel(d, currentElement),
         SetParsed(types, Is(d, currentElement, {"h3"}), parseType(d, currentElement)))

parseTypes(d) ==
  LET typesSection == SectionSel(d, "types")
  IN IF typesSection # {} THEN TypesLoop(d, NextSel(d, typesSection), <<>>) ELSE <<>>

\* Both data-center patterns capture a literal URL, so the defaults stand.
parseEndpoints(d) ==
  << [key |-> "us", value |-> "https://api.superops.ai/msp"],
     [key |-> "eu", value |-> "https://euapi.superops.ai/msp"] >>

\* The object parseAll returns.
ParsedDocumentation(endpoints, queries, mutations, types) ==
  [endpoints |-> endpoints,
   queries |-> queries,
   mutations |-> mutations,
   types |-> types,
   summary |-> [totalQueries |-> Len(Keys(queries)),
                totalMutations |-> Len(Keys(mutations)),
                totalTypes |-> Len(Keys(types))]]

parseAll(d) ==
  ParsedDocumentation(parseEndpoints(d), parseQueries(d), parseMutations(d),
                      parseTypes(d))

(***************************************************************************)
(* Search Engine                                                           *)
(***************************************************************************)
\* OperationFound without the test of the return type.
OperationFound_NoReturnType(operation, searchLower) ==
  IF includes(toLowerCase(operation.name), searchLower) THEN TRUE
  ELSE IF operation.description # None /\ operation.description[1] # ""
          /\ includes(toLowerCase(operation.description[1]), searchLower) THEN TRUE
  ELSE operation.arguments # None
       /\ \E i \in 1..Len(operation.arguments[1]) :
            LET arg == operation.arguments[1][i]
            IN \/ includes(toLowerCase(arg.name), searchLower)
               \/ includes(toLowerCase(arg.type), searchLower)
               \/ (arg.description # "" /\ includes(toLowerCase(arg.description), searchLower))

\* The chain of tests of one iteration of searchOperations' for loop.
OperationFound(operation, searchLower) ==
  IF includes(toLowerCase(operation.name), searchLower) THEN TRUE
  ELSE IF operation.description # None /\ operation.description[1] # ""
          /\ includes(toLowerCase(operation.description[1]), searchLower) THEN TRUE
  ELSE IF operation.arguments # None
          /\ \E i \in 1..Len(operation.arguments[1]) :
               LET arg == operation.arguments[1][i]
               IN \/ includes(toLowerCase(arg.name), searchLower)
                  \/ includes(toLowerCase(arg.type), searchLower)
                  \/ (arg.description # "" /\ includes(toLowerCase(arg.description), searchLower))
       THEN TRUE
  ELSE operation.returnType # None /\ operation.returnType[1] # ""
       /\ includes(toLowerCase(operation.returnType[1]), searchLower)

RECURSIVE OperationsSearchLoop(_, _)
OperationsSearchLoop(list, searchLower) ==
  IF Len(list) = 0 THEN <<>>
  ELSE (IF OperationFound(Head(list), searchLower) THEN <<Head(list)>> ELSE <<>>)
       \o OperationsSearchLoop(Tail(list), searchLower)

searchOperations(query, operations) ==
  OperationsSearchLoop(Values(operations), toLowerCase(query))

\* TypeFound without the test of the descriptions of the enum values.
TypeFound_NoEnumDescription(type, searchLower) ==
  IF includes(toLowerCase(type.name), searchLower) THEN TRUE
  ELSE IF type.description # None /\ type.description[1] # ""
          /\ includes(toLowerCase(type.description[1]), searchLower) THEN TRUE
  ELSE IF type.fields # None
          /\ \E i \in 1..Len(type.fields[1]) :
               LET field == type.fields[1][i]
               IN \/ includes(toLowerCase(field.name), searchLower)
                  \/ includes(toLowerCase(field.type), searchLower)
                  \/ (field.description # "" /\ includes(toLowerCase(field.description), searchLower))
       THEN TRUE
  ELSE type.enumValues # None
       /\ \E i \in 1..Len(type.enumValues[1]) :
            includes(toLowerCase(type.enumValues[1][i].name), searchLower)

TypeFound(type, searchLower) ==
  IF includes(toLowerCase(type.name), searchLower) THEN TRUE
  ELSE IF type.description # None /\ type.description[1] # ""
          /\ includes(toLowerCase(type.description[1]), searchLower) THEN TRUE
  ELSE IF type.fields # None
          /\ \E i \in 1..Len(type.fields[1]) :
               LET field == type.fields[1][i]
               IN \/ includes(toLowerCase(field.name), searchLower)
                  \/ includes(toLowerCase(field.type), searchLower)
                  \/ (field.description # "" /\ includes(toLowerCase(field.description), searchLower))
       THEN TRUE
  ELSE type.enumValues # None
       /\ \E i \in 1..Len(type.enumValues[1]) :
            LET enumValue == type.enumValues[1][i]
            IN \/ includes(toLowerCase(enumValue.name), searchLower)
               \/ (enumValue.description # None /\ enumValue.description[1] # ""
                   /\ includes(toLowerCase(enumValue.description[1]), searchLower))

RECURSIVE TypesSearchLoop(_, _)
TypesSearchLoop(list, searchLower) ==
  IF Len(list) = 0 THEN <<>>
  ELSE (IF TypeFound(Head(list), searchLower) THEN <<Head(list)>> ELSE <<>>)
       \o TypesSearchLoop(Tail(list), searchLower)

searchTypes(query, types) ==
  TypesSearchLoop(Values(types), toLowerCase(query))

(***************************************************************************)
(* The MCP server: its fields, and the tool handlers that fill and read    *)
(* them.  A Map is the sequence of its entries in insertion order.         *)
(***************************************************************************)
VARIABLES
  html,       \* the document the documentation site serves
  parser,     \* this.parser: None (null) or Some(document it was built from)
  endpoints,  \* this.endpoints
  queries,    \* this.queries
  mutations,  \* this.mutations
  types,      \* this.types
  parsed,     \* what the last parseAll() returned, None before the first
  result,     \* what the last tool call returned, None before the first
  pending,    \* the tool calls suspended at an await, in the order they began
  walk        \* the loop of the parser being stepped through, None if none

vars == <<html, parser, endpoints, queries, mutations, types, parsed, result, pending, walk>>

\* map.set(key, value)
MapSet(map, key, value) ==
  IF HasKey(map, key)
  THEN [i \in 1..Len(map) |-> IF map[i].key = key THEN [key |-> key, value |-> value]
                                                    ELSE map[i]]
  ELSE Append(map, [key |-> key, value |-> value])

\* map.clear(); Object.entries(obj).forEach(([name, v]) => map.set(name, v))
RECURSIVE MapFill(_, _)
MapFill(map, entries) ==
  IF Len(entries) = 0 THEN map
  ELSE MapFill(MapSet(map, Head(entries).key, Head(entries).value), Tail(entries))

\* Object.fromEntries(map): data properties, created in the Map's order.
RECURSIVE ObjectFromEntries(_, _)
ObjectFromEntries(obj, entries) ==
  IF Len(entries) = 0 THEN obj
  ELSE ObjectFromEntries(
         IF Head(entries).key = "__proto__" THEN Append(obj, Head(entries))
         ELSE ObjSet(obj, Head(entries).key, Head(entries).value),
         Tail(entries))

\* Loaded with a parse whose query count adds to the count of the parse held
\* before.
Loaded_CountsAccumulate(d, p) ==
  [parser |-> Some(d),
   parsed |-> Some([p EXCEPT !.summary.totalQueries =
                      @ + (IF parsed = None THEN 0 ELSE parsed[1].summary.totalQueries)]),
   endpoints |-> p.endpoints,
   queries |-> MapFill(<<>>, p.queries),
   mutations |-> MapFill(<<>>, p.mutations),
   types |-> MapFill(<<>>, p.types)]

\* Loaded without the three clear() calls.
Loaded_NoClear(d, p) ==
  [parser |-> Some(d),
   parsed |-> Some(p),
   endpoints |-> p.endpoints,
   queries |-> MapFill(queries, p.queries),
   mutations |-> MapFill(mutations, p.mutations),
   types |-> MapFill(types, p.types)]

\* Loaded seen after the three clear() calls and before the maps are refilled.
Loaded_Cleared(d, p) ==
  [parser |-> Some(d),
   parsed |-> Some(p),
   endpoints |-> p.endpoints,
   queries |-> <<>>,
   mutations |-> <<>>,
   types |-> <<>>]

\* Loaded with the assignment of this.parser left out.
Loaded_NoParser(d, p) ==
  [parser |-> parser,
   parsed |-> Some(p),
   endpoints |-> p.endpoints,
   queries |-> MapFill(<<>>, p.queries),
   mutations |-> MapFill(<<>>, p.mutations),
   types |-> MapFill(<<>>, p.types)]

\* The fields after storing what parseAll returned for document d.
Loaded(d, p) ==
  [parser |-> Some(d),
   parsed |-> Some(p),
   endpoints |-> p.endpoints,
   queries |-> MapFill(<<>>, p.queries),
   mutations |-> MapFill(<<>>, p.mutations),
   types |-> MapFill(<<>>, p.types)]

\* The fields fetchDocumentation leaves when the site answers with document d.
Fetched(d) == Loaded(d, parseAll(d))

Fields == [parser |-> parser, parsed |-> parsed, endpoints |-> endpoints,
           queries |-> queries, mutations |-> mutations, types |-> types]

Store(f) ==
  /\ parser' = f.parser
  /\ parsed' = f.parsed
  /\ endpoints' = f.endpoints
  /\ queries' = f.queries
  /\ mutations' = f.mutations
  /\ types' = f.types

\* Tool fetch_superops_documentation.
fetchDocumentation ==
  \E f \in {Fetched(html)} :
     /\ Store(f)
     /\ result' = [tool |-> "fetch_superops_documentation",
                   queries |-> Len(f.queries),
                   mutations |-> Len(f.mutations),
                   types |-> Len(f.types),
                   endpoints |-> Len(f.endpoints)]
     /\ UNCHANGED <<html, pending, walk>>

\* fetch() or response.text() rejects: the handler answers with the error and
\* no field has been assigned.
fetchFailed ==
  /\ result' = [tool |-> "fetch_superops_documentation",
                error |-> "Failed to fetch documentation"]
  /\ UNCHANGED <<html, parser, endpoints, queries, mutations, types, parsed, pending, walk>>

\* A further parseAll() on the parser instance the server holds.
parseAllAgain ==
  /\ parser # None
  /\ \E f \in {Loaded(parser[1], parseAll(parser[1]))} : parsed' = f.parsed
  /\ UNCHANGED <<html, parser, endpoints, queries, mutations, types, result, pending, walk>>

RECURSIVE Tagged(_, _)
Tagged(category, list) ==
  IF Len(list) = 0 THEN <<>>
  ELSE <<[category |-> category, entity |-> Head(list)]>> \o Tagged(category, Tail(list))

SearchTypes == {"all", "queries", "mutations", "types"}

\* The results array of searchDocumentation over the fields f.
SearchResults(f, query, type) ==
  (IF type \in {"all", "queries"}
   THEN Tagged("query", searchOperations(query, ObjectFromEntries(<<>>, f.queries)))
   ELSE <<>>)
  \o (IF type \in {"all", "mutations"}
      THEN Tagged("mutation", searchOperations(query, ObjectFromEntries(<<>>, f.mutations)))
      ELSE <<>>)
  \o (IF type \in {"all", "types"}
      THEN Tagged("type", searchTypes(query, ObjectFromEntries(<<>>, f.types)))
      ELSE <<>>)

\* Tool search_superops_docs.
searchDocumentation(query, type) ==
  \E f \in {IF parser = None /\ (Len(queries) = 0 \/ Len(mutations) = 0)
             THEN Fetched(html) ELSE Fields} :
     /\ Store(f)
     /\ result' = IF f.parser = None
                  THEN [tool |-> "search_superops_docs",
                        error |-> "Documentation not loaded"]
                  ELSE [tool |-> "search_superops_docs",
                        query |-> query,
                        type |-> type,
                        results |-> SearchResults(f, query, type)]
     /\ UNCHANGED <<html, pending, walk>>

(***************************************************************************)
(* Lookup tools                                                            *)
(***************************************************************************)
MaxSuggestions == 5

RECURSIVE Join(_, _)
Join(strs, sep) ==
  IF Len(strs) = 0 THEN ""
  ELSE IF Len(strs) = 1 THEN strs[1]
  ELSE strs[1] \o sep \o Join(Tail(strs), sep)

\* names.filter(name => name.toLowerCase().includes(requested.toLowerCase()))
RECURSIVE Containing(_, _)
Containing(names, requested) ==
  IF Len(names) = 0 THEN <<>>
  ELSE (IF includes(toLowerCase(Head(names)), toLowerCase(requested))
        THEN <<Head(names)>> ELSE <<>>) \o Containing(Tail(names), requested)

\* .slice(0, 5)
Slice(list) ==
  SubSeq(list, 1, IF Len(list) < MaxSuggestions THEN Len(list) ELSE MaxSuggestions)

Suggestions(names, requested) == Slice(Containing(names, requested))

\* The text of the answer with which the handler calls a thrown Error.
Caught_Bare(message) == message

\* catch (error) { return { content: [{ type: 'text', text: `Error: ...` }] } }
Caught(message) == "Error: " \o message

\* The answer of the handler's catch block to the Error a lookup throws.
NotFound(tool, kind, name, suggestions, hint) ==
  [tool |-> tool,
   name |-> name,
   suggestions |-> suggestions,
   text |-> Caught(kind \o " \"" \o name \o "\" not found. "
                     \o (IF Len(suggestions) > 0
                         THEN "Did you mean: " \o Join(suggestions, ", ") \o "?"
                         ELSE hint))]

\* The fields a lookup works on: fetched again when the name is not held.
Refreshed(held) == IF held THEN Fields ELSE Fetched(html)

\* The answer of a lookup of name in map; the text of a found entity is
\* formatted from the record given here.
LookupAnswer(tool, kind, map, name, hint) ==
  IF HasKey(map, name)
  THEN [tool |-> tool, name |-> name, found |-> Get(map, name)]
  ELSE NotFound(tool, kind, name, Suggestions(Keys(map), name), hint)

\* Tool get_superops_query_info.
getQueryInfo(queryName) ==
  \E f \in {Refreshed(HasKey(queries, queryName))} :
     /\ Store(f)
     /\ result' = LookupAnswer("get_superops_query_info", "Query", f.queries, queryName,
                               "Use list_superops_operations to see all available queries.")
     /\ UNCHANGED <<html, pending, walk>>

\* Tool get_superops_mutation_info.
getMutationInfo(mutationName) ==
  \E f \in {Refreshed(HasKey(mutations, mutationName))} :
     /\ Store(f)
     /\ result' = LookupAnswer("get_superops_mutation_info", "Mutation", f.mutations,
                               mutationName,
                               "Use list_superops_operations to see all available mutations.")
     /\ UNCHANGED <<html, pending, walk>>

\* Tool get_superops_type_info.
getTypeInfo(typeName) ==
  \E f \in {Refreshed(HasKey(types, typeName))} :
     /\ Store(f)
     /\ result' = LookupAnswer("get_superops_type_info", "Type", f.types, typeName,
                               "Use search_superops_docs to find available types.")
     /\ UNCHANGED <<html, pending, walk>>

(***************************************************************************)
(* Request generator.  Argument values that may be of any JavaScript type  *)
(* are held as JSON text, like the decoded values of the examples.         *)
(***************************************************************************)
\* !!value
Truthy(value) == value \notin {"\"\"", "0", "null", "false"}

\* a || b for optional values.
OrElse(a, b) == IF a # None /\ Truthy(a[1]) THEN a ELSE b

RECURSIVE RequiredOf(_)
RequiredOf(arguments) ==
  IF Len(arguments) = 0 THEN <<>>
  ELSE (IF Head(arguments).required THEN <<Head(arguments)>> ELSE <<>>)
       \o RequiredOf(Tail(arguments))

Typed(arguments) == [i \in 1..Len(arguments) |-> arguments[i].name \o ": " \o arguments[i].type]

Named(arguments) == [i \in 1..Len(arguments) |-> arguments[i].name \o ": " \o arguments[i].name]

FieldsHint ==
  "    # Add the fields you want to retrieve here\n"
  \o "    # Use get_superops_type_info to see available fields\n"

\* The basic query generated for an operation without an example query.
BasicQuery(operation, required) ==
  IF operation.arguments # None /\ Len(operation.arguments[1]) > 0
  THEN operation.type \o " " \o operation.name \o "(" \o Join(Typed(required), ", ")
         \o ") {\n  " \o operation.name \o "(" \o Join(Named(required), ", ")
         \o ") {\n" \o FieldsHint \o "  }\n}"
  ELSE operation.type \o " {\n  " \o operation.name \o " {\n" \o FieldsHint \o "  }\n}"

\* operation.example?.query || '' , then the basic query when that is empty.
QueryOf(operation) ==
  IF operation.example # None /\ operation.example[1].query # None
                              /\ operation.example[1].query[1] # ""
  THEN operation.example[1].query[1]
  ELSE BasicQuery(operation,
                  IF operation.arguments = None THEN <<>>
                  ELSE RequiredOf(operation.arguments[1]))

\* query.replace(/\n/g, '\\n').replace(/"/g, '\\"')
\* (the characters lo..hi of the query, replaced half by half)
RECURSIVE CurlRange(_, _, _)
CurlRange(query, lo, hi) ==
  IF lo > hi THEN ""
  ELSE IF lo = hi
  THEN (CASE Ch(query, lo) = "\n" -> "\\n"
          [] Ch(query, lo) = "\"" -> "\\\""
          [] OTHER -> Ch(query, lo))
  ELSE CurlRange(query, lo, (lo + hi) \div 2) \o CurlRange(query, (lo + hi) \div 2 + 1, hi)

CurlQuery(query) == CurlRange(query, 1, Len(query))

ApiUrl(endpoint) ==
  IF endpoint = "eu" THEN "https://euapi.superops.ai/msp" ELSE "https://api.superops.ai/msp"

\* One generated request: where it is sent, its headers and its body.
Request(url, subdomain, query, variables) ==
  [url |-> url,
   headers |-> << [name |-> "Content-Type", value |-> "application/json"],
                  [name |-> "CustomerSubDomain", value |-> subdomain] >>,
   query |-> query,
   variables |-> variables]

\* The answer generateRequest builds for a found operation.
RequestAnswer(operation, url, subdomain, query, variables) ==
  [tool |-> "generate_superops_request",
   name |-> operation.name,
   type |-> operation.type,
   endpoint |-> url,
   subdomain |-> subdomain,
   query |-> query,
   variables |-> variables,
   curl |-> Request(url, subdomain, CurlQuery(query), variables),
   fetch |-> Request(url, subdomain, query, variables),
   python |-> Request(url, subdomain, query, variables)]

\* variables || operation.example?.variables || {}
RequestVariables(variables, operation) ==
  OrElse(OrElse(variables,
                IF operation.example = None THEN None ELSE operation.example[1].variables),
         Some("{}"))[1]

\* generateRequest(operationName, subdomain, variables?, endpoint = 'us') over
\* the fields f: variables is None (undefined) or a JSON value, endpoint is
\* None or a JSON value.
generateRequest(f, operationName, subdomain, variables, endpoint) ==
  IF HasKey(f.queries, operationName) \/ HasKey(f.mutations, operationName)
  THEN RequestAnswer(IF HasKey(f.queries, operationName)
                     THEN Get(f.queries, operationName)
                     ELSE Get(f.mutations, operationName),
                     IF endpoint = Some(JSString("eu")) THEN ApiUrl("eu") ELSE ApiUrl("us"),
                     subdomain,
                     QueryOf(IF HasKey(f.queries, operationName)
                             THEN Get(f.queries, operationName)
                             ELSE Get(f.mutations, operationName)),
                     RequestVariables(variables,
                                      IF HasKey(f.queries, operationName)
                                      THEN Get(f.queries, operationName)
                                      ELSE Get(f.mutations, operationName)))
  ELSE NotFound("generate_superops_request", "Operation", operationName,
                Suggestions(Keys(f.queries) \o Keys(f.mutations), operationName),
                "Use list_superops_operations to see all available operations.")

\* Tool generate_superops_request.  The handler passes five arguments to the
\* four parameters of generateRequest: apiToken lands in variables, the
\* caller's variables in endpoint, and the caller's endpoint is dropped.
\* The arguments of the call are kept with the answer.
generate_superops_request(operationName, subdomain, apiToken, variables, endpoint) ==
  \E f \in {Refreshed(HasKey(queries, operationName) \/ HasKey(mutations, operationName))} :
     /\ Store(f)
     /\ result' = [tool |-> "generate_superops_request",
                   call |->
                     [operationName |-> operationName, subdomain |-> subdomain,
                      apiToken |-> apiToken, variables |-> variables,
                      endpoint |-> endpoint],
                   answer |-> generateRequest(f, operationName, subdomain,
                                              Some(JSString(apiToken)), variables)]
     /\ UNCHANGED <<html, pending, walk>>

(***************************************************************************)
(* Tool calls in flight.  A handler runs without interruption from one     *)
(* await to the next; at an await it is suspended and the other handlers   *)
(* run.  The only awaits that suspend a handler are those of                *)
(* fetchDocumentation (fetch() and response.text(), between which no field *)
(* is read or written) and the await of fetchDocumentation in its callers. *)
(***************************************************************************)
MaxPending == 2

\* A suspended call: at "fetch" it waits for the page, at "resume" for the
\* await of fetchDocumentation in searchDocumentation or a lookup to go on.
Call(tool, name, type, pc) == [tool |-> tool, name |-> name, type |-> type, pc |-> pc]

Without(calls, i) == SubSeq(calls, 1, i - 1) \o SubSeq(calls, i + 1, Len(calls))

Suspend(call) ==
  /\ Len(pending) < MaxPending
  /\ pending' = Append(pending, call)
  /\ UNCHANGED <<html, parser, endpoints, queries, mutations, types, parsed, result, walk>>

Answer(answer) ==
  /\ result' = answer
  /\ UNCHANGED <<html, parser, endpoints, queries, mutations, types, parsed, pending, walk>>

\* What fetchDocumentation returns.
FetchAnswer(f) ==
  [tool |-> "fetch_superops_documentation",
   queries |-> Len(f.queries),
   mutations |-> Len(f.mutations),
   types |-> Len(f.types),
   endpoints |-> Len(f.endpoints)]

\* searchDocumentation after its first statement, over the fields f.
SearchAnswer(f, query, type) ==
  IF f.parser = None
  THEN [tool |-> "search_superops_docs", text |-> Caught("Documentation not loaded")]
  ELSE [tool |-> "search_superops_docs", query |-> query, type |-> type,
        results |-> SearchResults(f, query, type)]

\* A lookup after its first statement, over the fields f.
LookupOf(tool, f, name) ==
  IF tool = "get_superops_query_info"
  THEN LookupAnswer(tool, "Query", f.queries, name,
                    "Use list_superops_operations to see all available queries.")
  ELSE LookupAnswer(tool, "Type", f.types, name,
                    "Use search_superops_docs to find available types.")

\* The rest of a handler once its await of fetchDocumentation has returned.
Resumed(call, f) ==
  IF call.tool = "search_superops_docs" THEN SearchAnswer(f, call.name, call.type)
  ELSE LookupOf(call.tool, f, call.name)

\* A fetch_superops_documentation call arrives: fetch() is awaited.
beginFetch == Suspend(Call("fetch_superops_documentation", "", "", "fetch"))

\* A search_superops_docs call arrives.
beginSearch(query, type) ==
  IF parser = None /\ (Len(queries) = 0 \/ Len(mutations) = 0)
  THEN Suspend(Call("search_superops_docs", query, type, "fetch"))
  ELSE Answer(SearchAnswer(Fields, query, type))

\* A get_superops_query_info or get_superops_type_info call arrives.
beginLookup(tool, name) ==
  IF HasKey(IF tool = "get_superops_query_info" THEN queries ELSE types, name)
  THEN Answer(LookupOf(tool, Fields, name))
  ELSE Suspend(Call(tool, name, "", "fetch"))

\* The site answers the fetch of call i with the page: the rest of
\* fetchDocumentation runs, and it returns to the handler (the fetch tool)
\* or to the await of its caller.  The status of the response is not read.
respond(i, page) ==
  /\ pending[i].pc = "fetch"
  /\ \E f \in {Fetched(page)} :
       /\ Store(f)
       /\ IF pending[i].tool = "fetch_superops_documentation"
          THEN result' = FetchAnswer(f) /\ pending' = Without(pending, i)
          ELSE result' = result /\ pending' = [pending EXCEPT ![i].pc = "resume"]
  /\ UNCHANGED <<html, walk>>

\* fetch() rejects: fetchDocumentation throws and the handler answers.
reject(i) ==
  /\ pending[i].pc = "fetch"
  /\ result' = [tool |-> pending[i].tool,
                text |-> Caught("Failed to fetch documentation: network")]
  /\ pending' = Without(pending, i)
  /\ UNCHANGED <<html, parser, endpoints, queries, mutations, types, parsed, walk>>

\* The handler of call i goes on after its await of fetchDocumentation.
resume(i) ==
  /\ pending[i].pc = "resume"
  /\ result' = Resumed(pending[i], Fields)
  /\ pending' = Without(pending, i)
  /\ UNCHANGED <<html, parser, endpoints, queries, mutations, types, parsed, walk>>

\* A call of a tool the switch does not know.
unknownTool(name) == Answer([tool |-> name, text |-> Caught("Unknown tool: " \o name)])

(***************************************************************************)
(* The loops of the parser, one iteration at a time.  walk holds the loop  *)
(* being run on the page: its name, the cursor it started from (from), its *)
(* currentElement (cursor), the iterations made (steps) and whether it was *)
(* left by a break (done).                                                 *)
(***************************************************************************)
Loops ==
  {"parseQueries", "parseMutations", "parseTypes", "returnType", "arguments", "example",
   "parseExample", "fields"}

Walk(loop, from, cursor, steps, done) ==
  [loop |-> loop, from |-> from, cursor |-> cursor, steps |-> steps, done |-> done]

\* What one run of a loop body leaves: the cursor, and whether it ended in break.
Iteration(cur, done) == [cur |-> cur, done |-> done]

\* The condition of the while statement.
Continues(loop, d, currentElement) ==
  /\ currentElement # {}
  /\ loop \in {"parseQueries", "parseMutations"} => ~Is(d, currentElement, {"h2"})
  /\ loop \notin {"parseQueries", "parseMutations", "parseTypes"}
       => ~Is(d, currentElement, Headings)

\* The return-type loop of parseOperation.
ReturnTypeIteration(d, currentElement) ==
  Iteration(NextSel(d, currentElement),
            \/ includes(toLowerCase(TextOf(d, currentElement)), "response")
            \/ includes(toLowerCase(TextOf(d, currentElement)), "returns"))

\* The arguments loop of parseOperation.
ArgumentsIteration(d, currentElement) ==
  IF Is(d, currentElement, {"table"})
  THEN Iteration(NextSel(d, currentElement), TRUE)
  ELSE IF includes(toLowerCase(TextOf(d, currentElement)), "arguments")
  THEN Iteration(NextSel(d, NextSel(d, currentElement)),
                 Is(d, NextSel(d, currentElement), {"table"}))
  ELSE Iteration(NextSel(d, currentElement), FALSE)

\* ExampleIteration going round again after parseExample has returned.
ExampleIteration_NoBreak(d, currentElement) ==
  IF includes(toLowerCase(TextOf(d, currentElement)), "example")
  THEN Iteration(currentElement, FALSE)
  ELSE Iteration(NextSel(d, currentElement), FALSE)

\* The example loop of parseOperation.
ExampleIteration(d, currentElement) ==
  IF includes(toLowerCase(TextOf(d, currentElement)), "example")
  THEN Iteration(currentElement, TRUE)
  ELSE Iteration(NextSel(d, currentElement), FALSE)

\* The table loop of parseType.
FieldsIteration(d, currentElement) ==
  IF Is(d, currentElement, {"table"})
  THEN Iteration(currentElement, TRUE)
  ELSE IF includes(toLowerCase(TextOf(d, currentElement)), "fields")
          \/ includes(toLowerCase(TextOf(d, currentElement)), "values")
  THEN IF Is(d, NextSel(d, currentElement), {"table"})
       THEN Iteration(NextSel(d, currentElement), TRUE)
       ELSE Iteration(NextSel(d, NextSel(d, currentElement)), FALSE)
  ELSE Iteration(NextSel(d, currentElement), FALSE)

\* The loops of parseQueries, parseMutations, parseTypes and parseExample
\* end every iteration with currentElement = currentElement.next().
NextIteration(d, currentElement) == Iteration(NextSel(d, currentElement), FALSE)

IterationOf(loop, d, currentElement) ==
  CASE loop = "returnType" -> ReturnTypeIteration(d, currentElement)
    [] loop = "arguments" -> ArgumentsIteration(d, currentElement)
    [] loop = "example" -> ExampleIteration(d, currentElement)
    [] loop = "fields" -> FieldsIteration(d, currentElement)
    [] OTHER -> NextIteration(d, currentElement)

\* The h3 selections a section walk from currentElement hands to parseOperation
\* or parseType.
RECURSIVE EntriesFrom(_, _, _)
EntriesFrom(loop, d, currentElement) ==
  IF ~Continues(loop, d, currentElement) THEN {}
  ELSE (IF Is(d, currentElement, {"h3"}) THEN {currentElement} ELSE {})
         \cup EntriesFrom(loop, d, NextSel(d, currentElement))

SectionOf(loop) ==
  CASE loop = "parseQueries" -> "queries"
    [] loop = "parseMutations" -> "mutations"
    [] loop = "parseTypes" -> "types"

SectionEntriesOf(loop, d) == EntriesFrom(loop, d, NextSel(d, SectionSel(d, SectionOf(loop))))

\* The selections with which the loop is entered while document d is parsed.
StartsOf(loop, d) ==
  CASE loop \in {"parseQueries", "parseMutations", "parseTypes"} ->
         IF SectionSel(d, SectionOf(loop)) # {}
         THEN {NextSel(d, SectionSel(d, SectionOf(loop)))} ELSE {}
    [] loop = "returnType" ->
         {OperationScans(d, element).description.cur :
            element \in SectionEntriesOf("parseQueries", d)
                          \cup SectionEntriesOf("parseMutations", d)}
    [] loop = "arguments" ->
         {OperationScans(d, element).returnType.cur :
            element \in SectionEntriesOf("parseQueries", d)
                          \cup SectionEntriesOf("parseMutations", d)}
    [] loop = "example" ->
         {OperationScans(d, element).arguments.cur :
            element \in SectionEntriesOf("parseQueries", d)
                          \cup SectionEntriesOf("parseMutations", d)}
    [] loop = "parseExample" ->
         {NextSel(d, OperationScans(d, element).example.src) :
            element \in {e \in SectionEntriesOf("parseQueries", d)
                                 \cup SectionEntriesOf("parseMutations", d) :
                           OperationScans(d, e).example.val # None}}
    [] loop = "fields" ->
         {TypeScans(d, element).description.cur :
            element \in SectionEntriesOf("parseTypes", d)}

\* The loop is reached.
enter(loop) ==
  /\ walk = None
  /\ \E start \in StartsOf(loop, html) : walk' = Some(Walk(loop, start, start, 0, FALSE))
  /\ UNCHANGED <<html, parser, endpoints, queries, mutations, types, parsed, result, pending>>

\* The body of the loop runs once.
iterate ==
  /\ walk # None
  /\ ~walk[1].done
  /\ Continues(walk[1].loop, html, walk[1].cursor)
  /\ walk[1].steps <= Len(html)
  /\ \E it \in {IterationOf(walk[1].loop, html, walk[1].cursor)} :
        walk' = Some(Walk(walk[1].loop, walk[1].from, it.cur, walk[1].steps + 1, it.done))
  /\ UNCHANGED <<html, parser, endpoints, queries, mutations, types, parsed, result, pending>>

\* The loop is left, by its break or because its condition fails.
leave ==
  /\ walk # None
  /\ walk[1].done \/ ~Continues(walk[1].loop, html, walk[1].cursor)
  /\ walk' = None
  /\ UNCHANGED <<html, parser, endpoints, queries, mutations, types, parsed, result, pending>>

(***************************************************************************)
(* The documents the site may serve                                        *)
(***************************************************************************)
H2(t) == El("h2", t)

H3(t) == El("h3", t)

P(t) == El("p", t)

Pre(t) == El("pre", t)

\* Every sequence over S of length at most n.
Seqs(S, n) == UNION {[1..k -> S] : k \in 0..n}

RECURSIVE Flatten(_)
Flatten(ss) == IF Len(ss) = 0 THEN <<>> ELSE Head(ss) \o Flatten(Tail(ss))

MaxBody == 3
MaxFragments == 3
MaxTypeEntries == 2
MaxDocLen == 4
MaxOps == 2

ArgTable == Table(<< <<"ticketId - ID!", "Unique identifier">> >>)

PageTable == Table(<< <<"first - Int", "Page size">> >>)

\* One operation entry getTicket with every body of at most MaxBody nodes,
\* alone or followed by another entry or by another section.
OpPool ==
  { P("Description"), P("Fetch a single ticket"), P("Returns a Ticket"),
    P("Arguments"), ArgTable, P("Example") }

OpTails ==
  { <<>>,
    <<H3("getTicketList"), PageTable, P("Example"), P("Query"),
      Pre("query { getTicketList }")>>,
    <<H2("Mutations"), H3("createTicket"), PageTable>> }

OperationDocs ==
  { <<H2("Queries"), H3("getTicket")>> \o body \o tail :
      body \in Seqs(OpPool, MaxBody), tail \in OpTails }

\* One operation entry whose example block holds at most MaxFragments
\* fragments, complete or not.
ExampleUnits ==
  { <<P("Query"), Pre("query { getTicket }")>>,
    <<P("Variables"), Pre("{\"id\": 1}")>>,
    <<P("Variables"), Pre("id = 1")>>,
    <<P("Response"), Pre(" {\"data\": [true, null]} ")>>,
    <<P("Response"), Pre("Not found")>>,
    <<P("Query")>>,
    <<Pre("{}")>> }

ExampleTails ==
  { <<>>,
    <<H3("getTicketList"), P("Returns a list"), PageTable, P("Example"),
      P("Variables"), Pre("{\"first\": 10}")>> }

ExampleDocs ==
  { <<H2("Queries"), H3("getTicket"), P("Returns a Ticket"), ArgTable, P("Example")>>
      \o Flatten(units) \o tail :
      units \in Seqs(ExampleUnits, MaxFragments), tail \in ExampleTails }

\* The entry every document of ExampleDocs starts with, before its example
\* fragments.
ExampleHead ==
  <<H2("Queries"), H3("getTicket"), P("Returns a Ticket"), ArgTable, P("Example")>>

\* Complete fragments whose code is or is not valid JSON.
DecodingUnits ==
  { <<P("Query"), Pre("query { getTicket }")>>,
    <<P("Variables"), Pre("{\"id\": 1}")>>,
    <<P("Variables"), Pre("id = 1")>>,
    <<P("Response"), Pre(" {\"data\": [true, null]} ")>>,
    <<P("Response"), Pre("Not found")>>,
    <<P("Response"), Pre("[1, 2")>> }

DecodingDocs ==
  { ExampleHead \o Flatten(units) \o tail :
      units \in Seqs(DecodingUnits, MaxFragments), tail \in ExampleTails }

\* A Types section of at most MaxTypeEntries entries.
TypeNames ==
  { "FooInput", "ColorEnum", "STATUS", "Status", "ID", "JSON", "String", "Ticket" }

EnumTable == Table(<< <<"OPEN">>, <<"CLOSED">> >>)

FieldTable ==
  Table(<< <<"id - ID!", "Identifier">>, <<"subject", "Subject line">>, <<" ", "blank">> >>)

TypeBodies ==
  { <<>>, <<EnumTable>>, <<P("Fields"), FieldTable>> }

TypeEntries == { <<H3(name)>> \o body : name \in TypeNames, body \in TypeBodies }

TypeDocs ==
  { <<H2("Types")>> \o Flatten(entries) : entries \in Seqs(TypeEntries, MaxTypeEntries) }

\* Every document of at most MaxDocLen section headings, entry headings and
\* tables, in any order.
SectionPool ==
  { H2("Queries"), H2("Mutations"), H2("Types"),
    H3("b"), H3("1"), H3(" "), H3("__proto__"), FieldTable }

SectionDocs == Seqs(SectionPool, MaxDocLen)

\* A Queries section of at most MaxOps operations, alone or followed by a
\* Mutations and a Types section.
SearchNames == { "getTicketList", "1" }

SearchBodies ==
  { <<P("Description"), P("Fetch tickets")>>,
    <<P("Returns a Ticket")>>,
    <<P("Returns an Asset"), PageTable>> }

SearchEntries == { <<H3(name)>> \o body : name \in SearchNames, body \in SearchBodies }

SearchDocs ==
  { <<H2("Queries")>> \o Flatten(entries) \o tail :
      entries \in Seqs(SearchEntries, MaxOps),
      tail \in { <<>>,
                 <<H2("Mutations"), H3("createTicket"), H2("Types"), H3("Ticket"),
                   FieldTable>> } }

SearchQueries == { "TICKET", "asset", "Int", "first", "size" }

\* A Types section of at most MaxSearchedTypes entries, an object type or an
\* enum, each with a description, a table of fields or a table of values.
MaxSearchedTypes == 2

OwnerTable == Table(<< <<"assignee - User!", "Owner of it">> >>)

StateTable == Table(<< <<"OPEN", "Still pending">>, <<"CLOSED">> >>)

SearchedTypeEntries ==
  { <<H3(name)>> \o body :
      name \in {"Ticket", "PRIORITY"},
      body \in { <<P("Description"), P("A support request")>>,
                 <<OwnerTable>>,
                 <<StateTable>> } }

TypeSearchDocs ==
  { <<H2("Types")>> \o Flatten(entries) :
      entries \in Seqs(SearchedTypeEntries, MaxSearchedTypes) }

\* An operation entry and a type entry, each with one table of at most
\* MaxRows rows: well-formed rows, required or not, and rows the table
\* parser has to skip.
MaxRows == 2

RowPool ==
  { <<"id - ID!", "Identifier">>,
    <<"tags - [String!]", "Labels">>,
    <<"first - Int", "Page size">>,
    <<" _note-  Text ", " padded ">>,
    <<"subject", "Subject line">>,
    <<"9lives - Int", "Not a name">>,
    <<"body - Text\nBlock", "Two lines">>,
    <<"alone - Int">> }

TableDocs ==
  { prefix \o <<Table(rows)>> :
      prefix \in { <<H2("Queries"), H3("getTicket"), P("Returns a Ticket")>>,
                   <<H2("Types"), H3("Ticket")>> },
      rows \in Seqs(RowPool, MaxRows) }

TypeSearchQueries ==
  { "ticket", "REQUEST", "assignee", "user", "Owner", "pending", "open" }

\* One entry, an operation or a type, whose first nodes are or are not a
\* description marker and a description.
MaxDescribed == 3

DescribedPool ==
  { P("Description"), P("DESCRIPTION: the ticket"), P(" Fetch a ticket "),
    P(" description"), Pre("Description"), FieldTable }

DescribedDocs ==
  { <<head[1], H3(head[2])>> \o body :
      head \in { <<H2("Queries"), "getTicket">>, <<H2("Types"), "Ticket">> },
      body \in Seqs(DescribedPool, MaxDescribed) }

\* One operation entry whose nodes mention, or not, a response or what the
\* operation returns, alone or followed by another entry.
MaxScanned == 3

ReturnPool ==
  { P("Description"), P("Returns a Ticket"), P("Response format"),
    P("It returns an Asset_2 list"), P("Return a Ticket"), ArgTable }

ReturnTails == { <<>>, <<H3("getAsset"), P("Returns an Asset")>> }

ReturnDocs ==
  { <<H2("Queries"), H3("getTicket")>> \o body \o tail :
      body \in Seqs(ReturnPool, MaxScanned), tail \in ReturnTails }

\* One operation entry whose return sentence, tables and example marker
\* come in every order, alone or followed by another entry.
ScanPool ==
  { P("Returns a Ticket"), P("Arguments"), ArgTable, PageTable, P("Example") }

ScanTails == { <<>>, <<H3("getAsset"), PageTable, P("Example")>> }

ScanDocs ==
  { <<H2("Queries"), H3("getTicket")>> \o body \o tail :
      body \in Seqs(ScanPool, MaxScanned), tail \in ScanTails }

\* A Types section of at most MaxTypeEntries entries whose table follows the
\* heading, follows a marker or another node, or is missing.
TableBodies ==
  { <<>>, <<P("Fields")>>, <<P("Values")>>, <<EnumTable>>,
    <<P("Fields"), FieldTable>>, <<P("Note"), EnumTable>> }

TableEntries == { <<H3(name)>> \o body : name \in {"Ticket", "STATUS"}, body \in TableBodies }

TypeTableDocs ==
  { <<H2("Types")>> \o Flatten(entries) : entries \in Seqs(TableEntries, MaxTypeEntries) }

\* One type entry named as a built-in scalar, or nearly so.
BuiltInNames ==
  { "String", "Int", "Float", "Boolean", "ID", "JSON",
    "Id", "Json", "INT", "string", "StringInput", "Ticket" }

BuiltInBodies == { <<>>, <<EnumTable>>, <<FieldTable>>, <<P("Fields"), FieldTable>> }

BuiltInDocs ==
  { <<H2("Types"), H3(name)>> \o body : name \in BuiltInNames, body \in BuiltInBodies }

\* What the site serves with a non-success status.
ErrorPage == <<El("h1", "404 Not Found")>>

\* One operation entry whose return sentence is followed by at most MaxWalked
\* nodes, markers without what they announce and a second Queries heading
\* among them, alone or followed by an entry without return sentence, a
\* complete entry and a Types section.
MaxWalked == 2

WalkPool ==
  { P("Arguments"), ArgTable, P("Example"), P("Query"), H2("Queries") }

WalkTails ==
  { <<>>,
    <<H3("getAsset"), PageTable, P("Example"), H2("Mutations"), H3("createTicket"),
      P("Returns a Ticket"), P("Arguments"), ArgTable, P("Example"), P("Response"),
      Pre("{}"), H2("Types"), H3("Ticket"), P("Fields"), H3("STATUS"), P("Values"),
      EnumTable>> }

WalkDocs ==
  { <<H2("Queries"), H3("getTicket"), P("Returns a Ticket")>> \o body \o tail :
      body \in Seqs(WalkPool, MaxWalked), tail \in WalkTails }

\* Versions of the documentation page: each section with none, one or two
\* entries, the query getTicket in two wordings.
VersionQueries ==
  {<<>>, <<H3("getTicket")>>, <<H3("getTicket"), P("Returns a Ticket")>>,
   <<H3("getAsset"), H3("getTicket")>>}

VersionMutations == {<<>>, <<H3("createTicket")>>}

VersionTypes == {<<>>, <<H3("Ticket"), FieldTable>>, <<H3("Asset"), H3("STATUS"), EnumTable>>}

Version(qs, ms, ts) ==
  <<H2("Queries")>> \o qs \o <<H2("Mutations")>> \o ms \o <<H2("Types")>> \o ts

VersionDocs ==
  {Version(qs, ms, ts) : qs \in VersionQueries, ms \in VersionMutations, ts \in VersionTypes}

\* The version the site serves when the server starts.
FirstVersion ==
  Version(<<H3("getAsset"), H3("getTicket")>>, <<H3("createTicket")>>,
          <<H3("Ticket"), FieldTable>>)

\* The site replaces the page.  The server sees the page only when it
\* fetches, so a replacement of a version it never fetched is left out.
publish ==
  /\ parser = Some(html)
  /\ \E d \in VersionDocs \ {html} : html' = d
  /\ UNCHANGED <<parser, endpoints, queries, mutations, types, parsed, result, pending, walk>>

\* Catalogs for the lookup tools and the request generator.
ToolQueries ==
  { <<>>,
    <<H3("getTicketList"), P("Returns a list"), PageTable>>,
    <<H3("getTicket"), P("Returns a Ticket"), ArgTable, P("Example"),
      P("Query"), Pre("query { getTicket }"), P("Variables"), Pre("{\"ticketId\": 7}"),
      H3("getTicketList"), P("Returns a list"), PageTable>> }

ToolMutations == {<<>>, <<H3("createTicket"), P("Returns a Ticket"), ArgTable>>}

ToolTypes == {<<>>, <<H3("Ticket"), FieldTable>>}

ToolDocs ==
  {Version(qs, ms, ts) : qs \in ToolQueries, ms \in ToolMutations, ts \in ToolTypes}

LookupNames == {"getTickets", "getTicket", "createTicket", "Tickets", "Ticket", "ticket"}

OperationNames == {"getTicket", "getTicketList", "createTicket", "getTickets"}

Subdomains == {"acme"}

ApiTokens == {"api-123", ""}

VariablesArguments == {None, Some("{\"id\":1}")}

EndpointArguments == {None, Some("us"), Some("eu")}

(***************************************************************************)
(* Specifications: a server started against one of the documents.          *)
(***************************************************************************)
InitWith(docs) ==
  /\ html \in docs
  /\ parser = None
  /\ endpoints = <<>>
  /\ queries = <<>>
  /\ mutations = <<>>
  /\ types = <<>>
  /\ parsed = None
  /\ result = None
  /\ pending = <<>>
  /\ walk = None

\* The tool calls, with the search arguments drawn from the given sets.
NextWith(someQueries, someTypes) ==
  \/ fetchDocumentation
  \/ \E query \in someQueries, type \in someTypes : searchDocumentation(query, type)

Next == NextWith({"id"}, {"all"})

NextSearch == NextWith(SearchQueries, SearchTypes)

InitOperations == InitWith(OperationDocs)
SpecOperations == InitOperations /\ [][Next]_vars

InitExamples == InitWith(ExampleDocs)
SpecExamples == InitExamples /\ [][Next]_vars

InitTypes == InitWith(TypeDocs)
SpecTypes == InitTypes /\ [][Next]_vars

InitSections == InitWith(SectionDocs)
SpecSections == InitSections /\ [][Next]_vars

InitSearch == InitWith(SearchDocs)
SpecSearch == InitSearch /\ [][NextSearch]_vars

InitTables == InitWith(TableDocs)
SpecTables == InitTables /\ [][Next]_vars

NextTypeSearch == NextWith(TypeSearchQueries, {"types", "all"})

InitTypeSearch == InitWith(TypeSearchDocs)
SpecTypeSearch == InitTypeSearch /\ [][NextTypeSearch]_vars

InitDecoding == InitWith(DecodingDocs)
SpecDecoding == InitDecoding /\ [][Next]_vars

\* The lookup tools and the request generator.
NextTools ==
  \/ fetchDocumentation
  \/ \E name \in LookupNames : getQueryInfo(name)
  \/ \E name \in LookupNames : getMutationInfo(name)
  \/ \E name \in LookupNames : getTypeInfo(name)
  \/ \E operationName \in OperationNames, subdomain \in Subdomains, apiToken \in ApiTokens,
        variables \in VariablesArguments, endpoint \in EndpointArguments :
        generate_superops_request(operationName, subdomain, apiToken, variables, endpoint)

InitTools == InitWith(ToolDocs)
SpecTools == InitTools /\ [][NextTools]_vars

InitDescribed == InitWith(DescribedDocs)
SpecDescribed == InitDescribed /\ [][Next]_vars

InitReturns == InitWith(ReturnDocs)
SpecReturns == InitReturns /\ [][Next]_vars

InitScans == InitWith(ScanDocs)
SpecScans == InitScans /\ [][Next]_vars

InitTypeTables == InitWith(TypeTableDocs)
SpecTypeTables == InitTypeTables /\ [][Next]_vars

InitBuiltIns == InitWith(BuiltInDocs)
SpecBuiltIns == InitBuiltIns /\ [][Next]_vars

\* A server whose documentation page changes between the fetches.
NextVersions ==
  \/ fetchDocumentation
  \/ fetchFailed
  \/ parseAllAgain
  \/ publish

InitVersions == InitWith({FirstVersion})
SpecVersions == InitVersions /\ [][NextVersions]_vars

\* Concurrent tool calls against a page that changes.
ConcurrentDocs ==
  { FirstVersion,
    Version(<<H3("getTicket"), P("Returns a Ticket")>>, <<>>,
            <<H3("Asset"), H3("STATUS"), EnumTable>>),
    Version(<<>>, <<>>, <<>>) }

LookupCalls ==
  { <<"get_superops_query_info", "getTicket">>, <<"get_superops_type_info", "Asset">> }

publishConcurrent ==
  /\ \E d \in ConcurrentDocs \ {html} : html' = d
  /\ UNCHANGED <<parser, endpoints, queries, mutations, types, parsed, result, pending, walk>>

NextConcurrent ==
  \/ beginFetch
  \/ beginSearch("ticket", "all")
  \/ \E call \in LookupCalls : beginLookup(call[1], call[2])
  \/ \E i \in 1..Len(pending) : respond(i, html)
  \/ \E i \in 1..Len(pending) : respond(i, ErrorPage)
  \/ \E i \in 1..Len(pending) : reject(i)
  \/ \E i \in 1..Len(pending) : resume(i)
  \/ unknownTool("delete_superops_ticket")
  \/ publishConcurrent

InitConcurrent == InitWith(ConcurrentDocs)
SpecConcurrent == InitConcurrent /\ [][NextConcurrent]_vars

\* The loops of the parser on a page.
NextWalks ==
  \/ \E loop \in Loops : enter(loop)
  \/ iterate
  \/ leave

InitWalks == InitWith(WalkDocs)
SpecWalks == InitWalks /\ [][NextWalks]_vars

(***************************************************************************)
(* Vocabulary of the properties                                            *)
(***************************************************************************)
\* The position of the first h2 or h3 after position h, Len(d)+1 if none.
NextHeading(d, h) ==
  LET later == {j \in (h + 1)..Len(d) : d[j].tag \in Headings}
  IN IF later = {} THEN Len(d) + 1 ELSE CHOOSE j \in later : \A k \in later : j <= k

\* The position of the first h2 after position s, Len(d)+1 if none.
NextH2(d, s) ==
  LET later == {j \in (s + 1)..Len(d) : d[j].tag = "h2"}
  IN IF later = {} THEN Len(d) + 1 ELSE CHOOSE j \in later : \A k \in later : j <= k

\* The h3 headings with a non-empty text between the one h2 titled title
\* and the next h2; none when the document has no, or several, such h2.
SectionEntries(d, title) ==
  IF Cardinality(SectionSel(d, title)) # 1 THEN {}
  ELSE LET s == CHOOSE i \in SectionSel(d, title) : TRUE
       IN {h \in (s + 1)..(NextH2(d, s) - 1) : d[h].tag = "h3" /\ trim(d[h].text) # ""}

OperationEntries(d) == SectionEntries(d, "queries") \cup SectionEntries(d, "mutations")

Mentions(n, word) == includes(toLowerCase(ElementText(n)), word)

ScenarioDoc ==
  <<H2("Queries"), H3("getTicket"), P("Description"), P("Fetch a single ticket"), ArgTable>>

(***************************************************************************)
(* C1.  The scenario document (h2 Queries, h3 getTicket, p Description,    *)
(* p "Fetch a single ticket", a table with the row ticketId - ID! /        *)
(* Unique identifier) parses to queries["getTicket"] with name getTicket,  *)
(* kind query, that description and the one argument of the row; and any   *)
(* operation entry whose table directly follows its description, with no   *)
(* node of the entry mentioning "response" or "returns", has its arguments *)
(* populated from that table.                                              *)
(***************************************************************************)
C1_ArgumentsWithoutReturnMarker ==
  parsed # None =>
    /\ html = ScenarioDoc =>
         /\ Keys(parsed[1].queries) = <<"getTicket">>
         /\ Get(parsed[1].queries, "getTicket") =
              [name |-> "getTicket", type |-> "query",
               description |-> Some("Fetch a single ticket"),
               returnType |-> None,
               arguments |-> Some(<<[name |-> "ticketId", type |-> "ID!",
                                     description |-> "Unique identifier",
                                     required |-> TRUE]>>),
               example |-> None]
    /\ \A h \in OperationEntries(html) :
         ( /\ h + 3 < NextHeading(html, h)
           /\ html[h + 1].tag = "p" /\ startsWith(toLowerCase(html[h + 1].text), "description")
           /\ html[h + 2].tag = "p"
           /\ html[h + 3] = ArgTable
           /\ \A j \in (h + 1)..(NextHeading(html, h) - 1) :
                ~Mentions(html[j], "response") /\ ~Mentions(html[j], "returns") )
         => \E i \in 1..Len(parsed[1].queries) :
              /\ parsed[1].queries[i].key = trim(html[h].text)
              /\ parsed[1].queries[i].value.arguments # None
              /\ Len(parsed[1].queries[i].value.arguments[1]) = 1

(***************************************************************************)
(* C2.  For every operation entry the cursor of parseOperation never moves *)
(* past the next h2 or h3 heading, and the description, the return type,   *)
(* the arguments and the example are read from nodes strictly between the  *)
(* entry's h3 and that heading.                                            *)
(***************************************************************************)
C2_CursorStaysInEntry ==
  parsed # None =>
    \A h \in OperationEntries(html) :
      LET scans == OperationScans(html, {h})
          seen == scans.description.seen \cup scans.returnType.seen
                    \cup scans.arguments.seen \cup scans.example.seen
          src == scans.description.src \cup scans.returnType.src
                   \cup scans.arguments.src \cup scans.example.src
      IN /\ seen \subseteq (h + 1)..NextHeading(html, h)
         /\ src \subseteq (h + 1)..(NextHeading(html, h) - 1)

\* The trimmed texts of the headings at the given positions.
NamesAt(d, positions) == {trim(d[h].text) : h \in positions}

KeySet(map) == {map[i].key : i \in 1..Len(map)}

SectionTitles == {"queries", "mutations", "types"}

\* The mapping the last parse recorded for a section.
Recorded(title) ==
  CASE title = "queries" -> parsed[1].queries
    [] title = "mutations" -> parsed[1].mutations
    [] title = "types" -> parsed[1].types

(***************************************************************************)
(* C3.  For each of the three sections, the entries recorded in its        *)
(* mapping are h3 siblings lying after the section's h2 and before the     *)
(* next h2: the entry walk stops at the next h2, so no h3 that follows a   *)
(* later h2 is recorded in queries, in mutations or in types.              *)
(***************************************************************************)
C3_WalkStopsAtNextH2 ==
  parsed # None =>
    \A title \in SectionTitles :
      Cardinality(SectionSel(html, title)) = 1 =>
        KeySet(Recorded(title)) \subseteq NamesAt(html, SectionEntries(html, title))

\* The h3 headings with a non-empty text that follow the one h2 "Types".
TypeEntryPositions(d) ==
  IF Cardinality(SectionSel(d, "types")) # 1 THEN {}
  ELSE LET s == CHOOSE i \in SectionSel(d, "types") : TRUE
       IN {h \in (s + 1)..Len(d) : d[h].tag = "h3" /\ trim(d[h].text) # ""}

\* The last of them named name: the entry whose record the mapping keeps.
LastTypeEntry(d, name) ==
  LET named == {h \in TypeEntryPositions(d) : trim(d[h].text) = name}
  IN CHOOSE h \in named : \A k \in named : k <= h

TableAfter(d, h) == \E j \in (h + 1)..Len(d) : d[j].tag = "table"

TableNext(d, h) == h + 1 <= Len(d) /\ d[h + 1].tag = "table"

Populated(type) ==
  (IF type.fields # None THEN {"fields"} ELSE {})
    \cup (IF type.enumValues # None THEN {"enumValues"} ELSE {})

NonBlankRow(row) == Len(row) >= 1 /\ trim(row[1]) # ""

ExpectedEnumValues(rows) ==
  LET kept == SelectSeq(rows, NonBlankRow)
  IN [k \in 1..Len(kept) |->
        [name |-> trim(kept[k][1]),
         description |-> IF Len(kept[k]) >= 2 THEN Some(trim(kept[k][2])) ELSE None]]

OpenClosed ==
  << [name |-> "OPEN", description |-> None], [name |-> "CLOSED", description |-> None] >>

HasLowerCase(name) == \E i \in 1..Len(name) : Ch(name, i) \in LowerChars

Suffix(name, n) == IF Len(name) >= n THEN SubSeq(name, Len(name) - n + 1, Len(name)) ELSE ""

(***************************************************************************)
(* C5 as stated.  A type entry whose heading is "Status" and whose table   *)
(* has the single-cell rows OPEN and CLOSED parses to a Type of kind ENUM  *)
(* with enumValues [OPEN, CLOSED].                                         *)
(***************************************************************************)
C5_StatusIsEnum ==
  (parsed # None /\ HasKey(types, "Status")
     /\ TableNext(html, LastTypeEntry(html, "Status"))
     /\ html[LastTypeEntry(html, "Status") + 1] = EnumTable)
  => /\ Get(types, "Status").kind = "ENUM"
     /\ Get(types, "Status").enumValues = Some(OpenClosed)

(***************************************************************************)
(* C5 as amended.  A type entry whose heading has no lower-case letter     *)
(* (such as "STATUS") or ends with "Enum", and whose table directly        *)
(* follows it, parses to a Type of kind ENUM whose enumValues are the rows *)
(* with a non-empty first cell, in row order, the second cell being the    *)
(* optional description: [OPEN, CLOSED] for the single-cell rows OPEN and  *)
(* CLOSED.  The heading "Status" itself gives kind OBJECT, and the         *)
(* single-cell rows give it no field.                                      *)
(***************************************************************************)
C5_UpperCaseIsEnum ==
  parsed # None =>
    \A i \in 1..Len(types) :
      LET type == types[i].value
          h == LastTypeEntry(html, type.name)
      IN TableNext(html, h) =>
           /\ (~HasLowerCase(type.name) \/ Suffix(type.name, 4) = "Enum") =>
                /\ type.kind = "ENUM"
                /\ type.enumValues = Some(ExpectedEnumValues(html[h + 1].rows))
                /\ html[h + 1] = EnumTable => type.enumValues = Some(OpenClosed)
           /\ (type.name = "Status" /\ html[h + 1] = EnumTable) =>
                /\ type.kind = "OBJECT"
                /\ type.fields = Some(<<>>)

C5_Witness ==
  /\ parsed # None
  /\ HasKey(types, "STATUS")
  /\ Get(types, "STATUS").kind = "ENUM"
  /\ Get(types, "STATUS").enumValues = Some(OpenClosed)
  /\ HasKey(types, "Status")
  /\ Get(types, "Status").fields = Some(<<>>)

\* The ordered rule list of the Kind Inferencer.
RuleKind(name) ==
  IF Suffix(name, 5) = "Input" THEN "INPUT_OBJECT"
  ELSE IF Suffix(name, 4) = "Enum" \/ ~HasLowerCase(name) THEN "ENUM"
  ELSE IF name \in {"String", "Int", "Float", "Boolean", "ID", "JSON"} THEN "SCALAR"
  ELSE "OBJECT"

(***************************************************************************)
(* C6.  The kind of every Type of a catalog is the one the ordered rule    *)
(* list gives for its name (ends with "Input": INPUT_OBJECT; else ends     *)
(* with "Enum" or equals its upper-casing: ENUM; else one of String, Int,  *)
(* Float, Boolean, ID, JSON: SCALAR; else OBJECT); "FooInput" is           *)
(* INPUT_OBJECT and INTERFACE and UNION never occur.                       *)
(***************************************************************************)
C6_KindFollowsRuleList ==
  parsed # None =>
    \A i \in 1..Len(types) :
      LET type == types[i].value
      IN /\ type.kind = RuleKind(type.name)
         /\ type.kind \in {"INPUT_OBJECT", "ENUM", "SCALAR", "OBJECT"}
         /\ type.name = "FooInput" => type.kind = "INPUT_OBJECT"

C6_Witness ==
  /\ parsed # None
  /\ HasKey(types, "FooInput") /\ Get(types, "FooInput").kind = "INPUT_OBJECT"
  /\ HasKey(types, "ID") /\ Get(types, "ID").kind = "ENUM"

\* The first node of the entry at h that mentions "example", 0 if none.
ExampleMarker(d, h) ==
  LET marks == {j \in (h + 1)..(NextHeading(d, h) - 1) : Mentions(d[j], "example")}
  IN IF marks = {} THEN 0 ELSE CHOOSE j \in marks : \A k \in marks : j <= k

\* The example block of the entry at h: the nodes after the marker and
\* before the next heading.
ExampleBlock(d, h) == (ExampleMarker(d, h) + 1)..(NextHeading(d, h) - 1)

\* The label a node carries: the first of the three its text mentions.
LabelOf(n) ==
  IF Mentions(n, "query") THEN "query"
  ELSE IF Mentions(n, "variables") THEN "variables"
  ELSE IF Mentions(n, "response") THEN "response"
  ELSE "none"

\* The labelled fragments of the block: a node carrying the label whose
\* next sibling is a pre or code node.
Fragments(d, h, label) ==
  {j \in ExampleBlock(d, h) :
     LabelOf(d[j]) = label /\ j + 1 <= Len(d) /\ d[j + 1].tag \in CodeTags}

\* The trimmed text of the code node of the last fragment.
FragmentCode(d, frags) ==
  trim(ElementText(d[(CHOOSE j \in frags : \A k \in frags : k <= j) + 1]))

\* The Example of the entry at h, absentQuery being the query of a block
\* without a query fragment.
ExpectedExample(d, h, absentQuery) ==
  [query |-> IF Fragments(d, h, "query") = {} THEN absentQuery
             ELSE Some(FragmentCode(d, Fragments(d, h, "query"))),
   variables |-> IF Fragments(d, h, "variables") = {} THEN None
                 ELSE Some(parseJSON(FragmentCode(d, Fragments(d, h, "variables")))),
   response |-> IF Fragments(d, h, "response") = {} THEN None
                ELSE Some(parseJSON(FragmentCode(d, Fragments(d, h, "response"))))]

\* Every operation entry with an example marker has the expected Example.
ExamplesAre(absentQuery) ==
  parsed # None =>
    \A h \in SectionEntries(html, "queries") :
      ExampleMarker(html, h) # 0 =>
        /\ HasKey(queries, trim(html[h].text))
        /\ Get(queries, trim(html[h].text)).example =
             Some(ExpectedExample(html, h, absentQuery))

(***************************************************************************)
(* C7 as stated.  For an example block holding any subset of the three     *)
(* labelled code fragments, the Example has each present fragment's field  *)
(* set from its code node and each absent fragment's field undefined: a    *)
(* block with only a query fragment gives {query: text, variables:         *)
(* undefined, response: undefined} and a block with no query fragment      *)
(* leaves query undefined.                                                 *)
(***************************************************************************)
C7_AbsentFieldsUndefined == ExamplesAre(None)

(***************************************************************************)
(* C7 as amended.  The Example has each present fragment's field set from  *)
(* the code node of the last fragment carrying the label (variables and    *)
(* response JSON-decoded, the raw trimmed text when decoding fails);       *)
(* variables and response are undefined when their fragment is absent,     *)
(* and query is the empty string, not undefined, when the block has no     *)
(* query fragment.  A block with only a query fragment gives {query: text, *)
(* variables: undefined, response: undefined}.                             *)
(***************************************************************************)
C7_AbsentQueryIsEmpty == ExamplesAre(Some(""))

C7_Witness ==
  /\ parsed # None
  /\ HasKey(queries, "getTicket")
  /\ Get(queries, "getTicket").example =
       Some([query |-> Some("query { getTicket }"), variables |-> None, response |-> None])
  /\ HasKey(queries, "getTicketList")
  /\ Get(queries, "getTicketList").example =
       Some([query |-> Some(""), variables |-> Some("{\"first\":10}"), response |-> None])

\* The names of the entries at the given positions, each once, in the
\* order of their first entry.
RECURSIVE FirstSeenFrom(_, _, _)
FirstSeenFrom(d, positions, i) ==
  IF i > Len(d) THEN <<>>
  ELSE (IF i \in positions
           /\ \A k \in positions : k < i => trim(d[k].text) # trim(d[i].text)
        THEN <<trim(d[i].text)>> ELSE <<>>) \o FirstSeenFrom(d, positions, i + 1)

FirstSeenNames(d, positions) == FirstSeenFrom(d, positions, 1)

\* The last entry of the section named name.
LastEntry(d, title, name) ==
  LET named == {h \in SectionEntries(d, title) : trim(d[h].text) = name}
  IN CHOOSE h \in named : \A k \in named : k <= h

\* The record the extractor builds for the entry at h of the section.
EntryRecord(d, title, h) ==
  CASE title = "queries" -> parseOperation(d, {h}, "query")[1]
    [] title = "mutations" -> parseOperation(d, {h}, "mutation")[1]
    [] title = "types" -> parseType(d, {h})[1]

\* The section has one h2, and the types section is the last one, where its
\* walk ends with the section.
WellDelimited(d, title) ==
  /\ Cardinality(SectionSel(d, title)) = 1
  /\ title = "types" => \A s \in SectionSel(d, title) : NextH2(d, s) = Len(d) + 1

(***************************************************************************)
(* C8.  Within one section the keys of the mapping are unique and equal    *)
(* the name of the record they map to, the record of a name is the one of  *)
(* the last entry with that name, and the mapping lists the names in the   *)
(* order in which each was first seen in the document, whatever the        *)
(* non-empty heading texts are.                                            *)
(***************************************************************************)
C8_KeysInFirstSeenOrder ==
  parsed # None =>
    \A title \in SectionTitles :
      WellDelimited(html, title) =>
        /\ Keys(Recorded(title)) = FirstSeenNames(html, SectionEntries(html, title))
        /\ \A i \in 1..Len(Recorded(title)) :
             /\ Recorded(title)[i].value.name = Recorded(title)[i].key
             /\ Recorded(title)[i].value =
                  EntryRecord(html, title, LastEntry(html, title, Recorded(title)[i].key))

\* The state after a search that returned results.
Searched ==
  /\ result # None
  /\ result.tool = "search_superops_docs"
  /\ "results" \in DOMAIN result

CategoryTitle(category) ==
  CASE category = "query" -> "queries"
    [] category = "mutation" -> "mutations"
    [] category = "type" -> "types"

\* The position of the first entry of the section named name.
FirstEntry(d, title, name) ==
  LET named == {h \in SectionEntries(d, title) : trim(d[h].text) = name}
  IN CHOOSE h \in named : \A k \in named : h <= k

(***************************************************************************)
(* C9.  The results of a search list the matching entities of each         *)
(* category in the order in which their names were first inserted, that    *)
(* is first seen in the document, and hold each entity at most once.       *)
(***************************************************************************)
C9_ResultsInFirstInsertionOrder ==
  Searched =>
    \A i, j \in 1..Len(result.results) :
      (i < j /\ result.results[i].category = result.results[j].category) =>
        /\ result.results[i].entity.name # result.results[j].entity.name
        /\ FirstEntry(html, CategoryTitle(result.results[i].category),
                      result.results[i].entity.name)
             < FirstEntry(html, CategoryTitle(result.results[j].category),
                          result.results[j].entity.name)

\* The matching predicate of an operation: the lower-cased query is a
\* substring of the lower-cased text.
TextMatches(text, query) == includes(toLowerCase(text), toLowerCase(query))

OptionalMatches(opt, query) == opt # None /\ TextMatches(opt[1], query)

OperationMatches(operation, query) ==
  \/ TextMatches(operation.name, query)
  \/ OptionalMatches(operation.description, query)
  \/ OptionalMatches(operation.returnType, query)
  \/ /\ operation.arguments # None
     /\ \E i \in 1..Len(operation.arguments[1]) :
          \/ TextMatches(operation.arguments[1][i].name, query)
          \/ TextMatches(operation.arguments[1][i].type, query)
          \/ TextMatches(operation.arguments[1][i].description, query)

\* The entities of the results of the category.
ResultEntities(category) ==
  {result.results[i].entity :
     i \in {k \in 1..Len(result.results) : result.results[k].category = category}}

MatchingOperations(map, query) ==
  {map[i].value : i \in {k \in 1..Len(map) : OperationMatches(map[k].value, query)}}

(***************************************************************************)
(* C10.  searchOperations returns exactly the operations for which the     *)
(* lower-cased query is a substring of the lower-cased name, description,  *)
(* returnType, or of the name, type or description of some argument: no    *)
(* matching operation is omitted and no other is included.  An operation   *)
(* named getTicketList with description "Fetch tickets" is returned for    *)
(* the query "TICKET".                                                     *)
(***************************************************************************)
C10_ExactlyTheMatchingOperations ==
  Searched =>
    /\ result.type \in {"all", "queries"} =>
         /\ ResultEntities("query") = MatchingOperations(queries, result.query)
         /\ (result.query = "TICKET" /\ HasKey(queries, "getTicketList")) =>
              Get(queries, "getTicketList") \in ResultEntities("query")
    /\ result.type \in {"all", "mutations"} =>
         ResultEntities("mutation") = MatchingOperations(mutations, result.query)

C10_Witness ==
  /\ Searched
  /\ result.query = "TICKET"
  /\ result.type = "queries"
  /\ \E e \in ResultEntities("query") :
       e.name = "getTicketList" /\ e.description = Some("Fetch tickets")
  /\ \E i \in 1..Len(queries) : queries[i].value \notin ResultEntities("query")

\* The matching predicate of a type.
TypeMatches(type, query) ==
  \/ TextMatches(type.name, query)
  \/ OptionalMatches(type.description, query)
  \/ /\ type.fields # None
     /\ \E i \in 1..Len(type.fields[1]) :
          \/ TextMatches(type.fields[1][i].name, query)
          \/ TextMatches(type.fields[1][i].type, query)
          \/ TextMatches(type.fields[1][i].description, query)
  \/ /\ type.enumValues # None
     /\ \E i \in 1..Len(type.enumValues[1]) :
          \/ TextMatches(type.enumValues[1][i].name, query)
          \/ OptionalMatches(type.enumValues[1][i].description, query)

MatchingTypes(map, query) ==
  {map[i].value : i \in {k \in 1..Len(map) : TypeMatches(map[k].value, query)}}

(***************************************************************************)
(* C11.  searchTypes returns exactly the types for which the lower-cased   *)
(* query is a substring of the lower-cased name, description, of the name, *)
(* type or description of some field, or of the name or description of     *)
(* some enum value: no matching type is omitted and no other is included.  *)
(***************************************************************************)
C11_ExactlyTheMatchingTypes ==
  (Searched /\ result.type \in {"all", "types"}) =>
    ResultEntities("type") = MatchingTypes(types, result.query)

C11_Witness ==
  /\ Searched
  /\ result.query = "pending"
  /\ \E e \in ResultEntities("type") : e.name = "PRIORITY"
  /\ \E i \in 1..Len(types) : types[i].value \notin ResultEntities("type")

\* Every list of arguments and every list of fields of the held catalog.
RecordLists ==
  {queries[i].value.arguments[1] :
     i \in {k \in 1..Len(queries) : queries[k].value.arguments # None}}
  \cup {mutations[i].value.arguments[1] :
     i \in {k \in 1..Len(mutations) : mutations[k].value.arguments # None}}
  \cup {types[i].value.fields[1] :
     i \in {k \in 1..Len(types) : types[k].value.fields # None}}

(***************************************************************************)
(* C12.  For every Field and Argument record produced from a table,        *)
(* required is true if and only if the stored type string contains the     *)
(* character "!".                                                          *)
(***************************************************************************)
C12_RequiredIffBang ==
  parsed # None =>
    \A list \in RecordLists :
      \A i \in 1..Len(list) :
        list[i].required <=> (\E k \in 1..Len(list[i].type) : Ch(list[i].type, k) = "!")

C12_Witness ==
  /\ parsed # None
  /\ \E list \in RecordLists :
       /\ \E i \in 1..Len(list) : list[i].type = "[String!]" /\ list[i].required
       /\ \E i \in 1..Len(list) : list[i].type = "Int" /\ ~list[i].required

\* Identifier syntax: [A-Za-z_][A-Za-z0-9_]*.
IsIdentifier(s) ==
  /\ Len(s) >= 1
  /\ Ch(s, 1) \in LowerChars \cup UpperChars \cup {"_"}
  /\ \A i \in 2..Len(s) : Ch(s, i) \in WordChars

\* The places where the trimmed first cell c splits as "name - type": k is
\* the last character of the name and a the position of the dash, with only
\* white space between them and a type of one line after the dash.
NameTypeSplits(c) ==
  {ka \in (1..Len(c)) \X (1..Len(c)) :
     /\ IsIdentifier(SubSeq(c, 1, ka[1]))
     /\ ka[1] < ka[2] /\ ka[2] < Len(c)
     /\ Ch(c, ka[2]) = "-"
     /\ \A i \in (ka[1] + 1)..(ka[2] - 1) : Ch(c, i) \in SpaceChars
     /\ \A i \in (ka[2] + 1)..Len(c) : Ch(c, i) # "\n"}

\* A row that yields a record: two cells at least, the first one of the
\* "name - type" pattern.
RowYields(row) == Len(row) >= 2 /\ NameTypeSplits(trim(row[1])) # {}

\* The name, type and description the rows that yield a record give, in row
\* order.
ExpectedRecords(rows) ==
  LET kept == SelectSeq(rows, RowYields)
  IN [i \in 1..Len(kept) |->
        LET c == trim(kept[i][1])
            ka == CHOOSE x \in NameTypeSplits(c) : TRUE
        IN [name |-> SubSeq(c, 1, ka[1]),
            type |-> trim(SubSeq(c, ka[2] + 1, Len(c))),
            description |-> trim(kept[i][2])]]

Stripped(list) ==
  [i \in 1..Len(list) |->
     [name |-> list[i].name, type |-> list[i].type, description |-> list[i].description]]

Tables(d) == {i \in 1..Len(d) : d[i].tag = "table"}

(***************************************************************************)
(* C13.  Every Field and Argument of a catalog has a non-empty name of     *)
(* identifier syntax; a table row with fewer than two cells, or whose      *)
(* first cell is not of the "name - type" pattern, contributes no record,  *)
(* and the other rows of the table give their records in row order.        *)
(***************************************************************************)
C13_OnlyWellFormedRows ==
  parsed # None =>
    /\ \A list \in RecordLists : \A i \in 1..Len(list) : IsIdentifier(list[i].name)
    /\ Cardinality(Tables(html)) = 1 =>
         \A list \in RecordLists :
           \A t \in Tables(html) : Stripped(list) = ExpectedRecords(html[t].rows)

C13_Witness ==
  /\ parsed # None
  /\ \E t \in Tables(html) :
       html[t].rows = << <<"subject", "Subject line">>, <<"first - Int", "Page size">> >>
  /\ \E list \in RecordLists :
       Stripped(list) = <<[name |-> "first", type |-> "Int", description |-> "Page size"]>>

NoCounts == [totalQueries |-> 0, totalMutations |-> 0, totalTypes |-> 0]

(***************************************************************************)
(* C14.  Parsing a document with none of the three section headings gives  *)
(* queries, mutations and types all empty and a summary of zeros; a        *)
(* missing section heading gives an empty mapping for that section only (a *)
(* section that has its heading and a named entry is not empty); a heading *)
(* with an empty trimmed text gives no record; and each summary count is   *)
(* the number of keys of its mapping.                                      *)
(***************************************************************************)
C14_MissingSectionsAreEmpty ==
  parsed # None =>
    /\ (\A title \in SectionTitles : SectionSel(html, title) = {}) =>
         /\ parsed[1].queries = <<>> /\ parsed[1].mutations = <<>> /\ parsed[1].types = <<>>
         /\ parsed[1].summary = NoCounts
    /\ \A title \in SectionTitles :
         /\ SectionSel(html, title) = {} => Recorded(title) = <<>>
         /\ (\E h \in SectionEntries(html, title) : trim(html[h].text) # "__proto__")
              => Recorded(title) # <<>>
         /\ \A i \in 1..Len(Recorded(title)) :
              Recorded(title)[i].key # "" /\ Recorded(title)[i].value.name # ""
    /\ parsed[1].summary = [totalQueries |-> Len(Keys(parsed[1].queries)),
                            totalMutations |-> Len(Keys(parsed[1].mutations)),
                            totalTypes |-> Len(Keys(parsed[1].types))]

C14_Witness ==
  /\ parsed # None
  /\ \A title \in SectionTitles : SectionSel(html, title) = {}
  /\ \E h \in 1..Len(html) : html[h] = H3("b")
  /\ \E h \in 1..Len(html) : html[h] = H3(" ")
  /\ parsed[1].summary = NoCounts
  /\ queries = <<>> /\ mutations = <<>> /\ types = <<>>

Dropped(before, after, newest) ==
  \A i \in 1..Len(before) :
     ~HasKey(newest, before[i].key) => ~HasKey(after, before[i].key)

DecodedTexts ==
  { <<"{\"id\": 1}", "{\"id\":1}">>,
    <<"{\"data\": [true, null]}", "{\"data\":[true,null]}">>,
    <<"{\"first\": 10}", "{\"first\":10}">> }

IsValidJSON(text) == \E p \in DecodedTexts : p[1] = text

\* The decoded value of a valid text, the raw text (a string) otherwise.
DecodedOrRaw(text) ==
  IF IsValidJSON(text) THEN (CHOOSE p \in DecodedTexts : p[1] = text)[2]
  ELSE "\"" \o text \o "\""

\* The operation of the entry the documents start with, its example left out.
ExampleHeadOperation ==
  [Get(parseAll(ExampleHead).queries, "getTicket") EXCEPT !.example = None]

FieldOf(ex, label) == IF label = "variables" THEN ex.variables ELSE ex.response

(***************************************************************************)
(* C16.  When the variables or response code fragment of an example is     *)
(* present, the field is the JSON-decoded value if the trimmed text of the *)
(* fragment is valid JSON and the raw trimmed text otherwise; a failed     *)
(* decoding stops neither the other fields of the example nor the rest of  *)
(* the operation nor the entries after it from being produced.             *)
(***************************************************************************)
C16_DecodedOrRawText ==
  parsed # None =>
    /\ \A h \in SectionEntries(html, "queries") :
         /\ HasKey(queries, trim(html[h].text))
         /\ ExampleMarker(html, h) # 0 =>
              /\ Get(queries, trim(html[h].text)).example # None
              /\ \A label \in {"variables", "response"} :
                   Fragments(html, h, label) # {} =>
                     FieldOf(Get(queries, trim(html[h].text)).example[1], label) =
                       Some(DecodedOrRaw(FragmentCode(html, Fragments(html, h, label))))
              /\ Fragments(html, h, "query") # {} =>
                   Get(queries, trim(html[h].text)).example[1].query =
                     Some(FragmentCode(html, Fragments(html, h, "query")))
    /\ [Get(queries, "getTicket") EXCEPT !.example = None] = ExampleHeadOperation

C16_Witness ==
  /\ parsed # None
  /\ HasKey(queries, "getTicket")
  /\ Get(queries, "getTicket").example =
       Some([query |-> Some("query { getTicket }"),
             variables |-> Some("{\"id\":1}"),
             response |-> Some("\"[1, 2\"")])
  /\ Get(queries, "getTicket").returnType = Some("Ticket")
  /\ HasKey(queries, "getTicketList")
  /\ Get(queries, "getTicketList").example # None

\* The last tool call was a lookup by the given tool of the given name, and
\* it was answered with the not-found error.
LookupFailed(tool, name) ==
  /\ result # None
  /\ result.tool = tool
  /\ "suggestions" \in DOMAIN result
  /\ result.name = name

Suggested(name) == \E i \in 1..Len(result.suggestions) : result.suggestions[i] = name

(***************************************************************************)
(* C17.  A lookup of a name that is not in the catalog answers with an     *)
(* error that suggests the similar existing names: the query "getTickets"  *)
(* with getTicket and getTicketList in the catalog gives suggestions       *)
(* including those names, and the type "Tickets" with Ticket in the        *)
(* catalog gives a suggestion including Ticket.                            *)
(***************************************************************************)
C17_SimilarNamesSuggested ==
  /\ (LookupFailed("get_superops_query_info", "getTickets")
        /\ HasKey(queries, "getTicket") /\ HasKey(queries, "getTicketList"))
      => (Suggested("getTicket") /\ Suggested("getTicketList"))
  /\ (LookupFailed("get_superops_type_info", "Tickets") /\ HasKey(types, "Ticket"))
      => Suggested("Ticket")

\* The last tool call generated a request.
Generated ==
  /\ result # None
  /\ result.tool = "generate_superops_request"
  /\ "curl" \in DOMAIN result.answer

Variants == <<result.answer.curl, result.answer.fetch, result.answer.python>>

(***************************************************************************)
(* C18.  generate_superops_request with endpoint "eu" gives a request      *)
(* addressed to the EU URL, with endpoint "us" or no endpoint a request    *)
(* addressed to the US URL, and the variables argument of the caller, not  *)
(* any other argument, is what the request carries as its variables.       *)
(***************************************************************************)
C18_EndpointAndVariablesOfCaller ==
  Generated =>
    /\ \A i \in 1..3 :
         Variants[i].url = IF result.call.endpoint = Some("eu")
                           THEN "https://euapi.superops.ai/msp"
                           ELSE "https://api.superops.ai/msp"
    /\ result.call.variables # None =>
         \A i \in 1..3 : Variants[i].variables = result.call.variables[1]

HasHeader(request, name, value) ==
  \E i \in 1..Len(request.headers) :
     request.headers[i].name = name /\ includes(request.headers[i].value, value)

(***************************************************************************)
(* C19.  Every request generate_superops_request generates (curl, fetch    *)
(* and Python) carries an Authorization header built from the apiToken of  *)
(* the caller and the CustomerSubDomain header built from the subdomain of *)
(* the caller.                                                             *)
(***************************************************************************)
C19_RequestsAuthenticated ==
  Generated =>
    \A i \in 1..3 :
       /\ HasHeader(Variants[i], "CustomerSubDomain", result.call.subdomain)
       /\ \E h \in 1..Len(Variants[i].headers) :
            /\ Variants[i].headers[h].name = "Authorization"
            /\ result.call.apiToken # ""
                 => includes(Variants[i].headers[h].value, result.call.apiToken)


\* The node after the heading at h is a paragraph whose text begins with
\* "description", whatever the case of its letters.
DescriptionMarker(d, h) ==
  /\ h + 1 <= Len(d)
  /\ d[h + 1].tag = "p"
  /\ Len(d[h + 1].text) >= 11
  /\ toLowerCase(SubSeq(d[h + 1].text, 1, 11)) = "description"

\* The description of the entry at h.
ExpectedDescription(d, h) ==
  IF DescriptionMarker(d, h) /\ h + 2 <= Len(d) /\ d[h + 2].tag = "p"
  THEN Some(trim(d[h + 2].text))
  ELSE None

(***************************************************************************)
(* C21.  The description of an entry, operation or type, is set if and     *)
(* only if the node right after the heading is a paragraph whose text      *)
(* begins with "description" (in any case) and the node right after that   *)
(* marker is a paragraph; it is then the trimmed text of that second       *)
(* paragraph.                                                              *)
(***************************************************************************)
C21_DescriptionAfterMarker ==
  parsed # None =>
    /\ \A h \in SectionEntries(html, "queries") :
         /\ HasKey(queries, trim(html[h].text))
         /\ Get(queries, trim(html[h].text)).description = ExpectedDescription(html, h)
    /\ \A h \in SectionEntries(html, "types") :
         /\ HasKey(types, trim(html[h].text))
         /\ Get(types, trim(html[h].text)).description = ExpectedDescription(html, h)

C21_Witness ==
  /\ parsed # None
  /\ html = <<H2("Types"), H3("Ticket"), P("DESCRIPTION: the ticket"),
              P(" Fetch a ticket "), FieldTable>>
  /\ Get(types, "Ticket").description = Some("Fetch a ticket")


\* The first node of the entry at h that the description step leaves to the
\* scans.
AfterDescription(d, h) ==
  IF ~DescriptionMarker(d, h) THEN h + 1
  ELSE IF h + 2 <= Len(d) /\ d[h + 2].tag = "p" THEN h + 3
  ELSE h + 2

\* The nodes of the entry at h, from position from on, that mention a
\* response or what is returned.
ReturnNodes(d, h, from) ==
  {j \in from..(NextHeading(d, h) - 1) : Mentions(d[j], "response") \/ Mentions(d[j], "returns")}

\* The sentences of the documents that match returns? a|an <Identifier>,
\* each with its identifier.
ReturnSentences ==
  { <<"Returns a Ticket", "Ticket">>,
    <<"It returns an Asset_2 list", "Asset_2">>,
    <<"Returns an Asset", "Asset">> }

Captured(text) ==
  IF \E p \in ReturnSentences : p[1] = text
  THEN Some((CHOOSE p \in ReturnSentences : p[1] = text)[2])
  ELSE None

ExpectedReturnType(d, h) ==
  LET nodes == ReturnNodes(d, h, AfterDescription(d, h))
  IN IF nodes = {} THEN None
     ELSE Captured(ElementText(d[CHOOSE j \in nodes : \A k \in nodes : j <= k]))

(***************************************************************************)
(* C22.  The returnType of an operation is determined by the first node,   *)
(* after the description and before the next h2 or h3, whose text contains *)
(* "response" or "returns" in any case: it is the identifier the pattern   *)
(* returns? a|an <Identifier> captures in that node, and stays unset when  *)
(* that node does not match, a later node with a matching sentence never   *)
(* being used.                                                             *)
(***************************************************************************)
C22_FirstReturnNodeDecides ==
  parsed # None =>
    \A h \in SectionEntries(html, "queries") :
      /\ HasKey(queries, trim(html[h].text))
      /\ Get(queries, trim(html[h].text)).returnType = ExpectedReturnType(html, h)

C22_Witness ==
  /\ parsed # None
  /\ html = <<H2("Queries"), H3("getTicket"), P("Response format"), P("Returns a Ticket"),
              H3("getAsset"), P("Returns an Asset")>>
  /\ Get(queries, "getTicket").returnType = None
  /\ Get(queries, "getAsset").returnType = Some("Asset")


\* Every position of seen is at or after the cursor the scan started from.
NotBefore(seen, cur) ==
  IF cur = {} THEN seen = {} ELSE \A x \in seen, y \in cur : x >= y

\* Every position of the first set is before every position of the second.
Before(first, second) == \A x \in first, y \in second : x < y

\* The three scans of the entry at h move one cursor forward.
ForwardOnly(d, h) ==
  LET scans == OperationScans(d, {h})
  IN /\ NotBefore(scans.returnType.seen, scans.description.cur)
     /\ NotBefore(scans.arguments.seen, scans.returnType.cur)
     /\ NotBefore(scans.example.seen, scans.arguments.cur)
     /\ Before(scans.returnType.src, scans.arguments.src)
     /\ Before(scans.returnType.src, scans.example.src)
     /\ Before(scans.arguments.src, scans.example.src)

\* The arguments and the example of the operation come from a table and an
\* example marker after the return node r, in that order; without a return
\* node there are none.
AfterReturnNode(d, operation, nodes) ==
  IF nodes = {} THEN operation.arguments = None /\ operation.example = None
  ELSE LET r == CHOOSE j \in nodes : \A k \in nodes : j <= k
           tables == {j \in (r + 1)..Len(d) :
                        /\ d[j].tag = "table"
                        /\ operation.arguments = Some(ArgumentRows(d[j].rows))}
           markers == {j \in (r + 1)..Len(d) : Mentions(d[j], "example")}
       IN /\ operation.arguments # None => tables # {}
          /\ operation.example # None => markers # {}
          /\ (operation.arguments # None /\ operation.example # None)
               => \E j \in tables, e \in markers : j < e

(***************************************************************************)
(* C23.  Within one operation entry the three scans consume the siblings   *)
(* from left to right and never go back: the return node, the arguments    *)
(* table and the example marker of an operation come in that order in the  *)
(* document, and a table or an example marker placed before the node where *)
(* an earlier scan stopped contributes nothing to the operation.           *)
(***************************************************************************)
C23_ScansMoveForward ==
  parsed # None =>
    \A h \in SectionEntries(html, "queries") :
      /\ HasKey(queries, trim(html[h].text))
      /\ ForwardOnly(html, h)
      /\ AfterReturnNode(html, Get(queries, trim(html[h].text)),
                         ReturnNodes(html, h, AfterDescription(html, h)))

C23_Witness ==
  /\ parsed # None
  /\ html = <<H2("Queries"), H3("getTicket"), PageTable, P("Returns a Ticket"), ArgTable,
              H3("getAsset"), PageTable, P("Example")>>
  /\ Get(queries, "getTicket").returnType = Some("Ticket")
  /\ Get(queries, "getTicket").arguments = Some(ArgumentRows(ArgTable.rows))
  /\ Get(queries, "getTicket").example = None


\* The tables strictly between the heading at h and the next heading.
OwnTables(d, h) == {j \in (h + 1)..(NextHeading(d, h) - 1) : d[j].tag = "table"}

\* The type is populated from the rows of one of the given tables, as an
\* enum table when its kind is ENUM and as a field table otherwise, and is
\* not populated when there is no table.
PopulatedFrom(d, type, tables) ==
  IF type.kind = "ENUM"
  THEN /\ type.fields = None
       /\ IF tables = {} THEN type.enumValues = None
          ELSE \E j \in tables : type.enumValues = Some(EnumRows(d[j].rows))
  ELSE /\ type.enumValues = None
       /\ IF tables = {} THEN type.fields = None
          ELSE \E j \in tables : type.fields = Some(ArgumentRows(d[j].rows))

(***************************************************************************)
(* C24.  For every type entry the table that populates fields or           *)
(* enumValues lies strictly between the h3 heading of the entry and the    *)
(* next h2 or h3 heading, also when a node mentioning "fields" or "values" *)
(* is followed at once by the next heading and not by a table; it is       *)
(* parsed as an enum table exactly when the inferred kind is ENUM and as a *)
(* field table otherwise.                                                  *)
(***************************************************************************)
C24_TableWithinEntry ==
  parsed # None =>
    \A h \in SectionEntries(html, "types") :
      /\ TypeScans(html, {h}).table.src \subseteq OwnTables(html, h)
      /\ h = LastTypeEntry(html, trim(html[h].text)) =>
           /\ HasKey(types, trim(html[h].text))
           /\ PopulatedFrom(html, Get(types, trim(html[h].text)), OwnTables(html, h))


(***************************************************************************)
(* C30.  The upper-case rule being tested before the scalar list, the      *)
(* built-in scalar names ID and JSON are classified ENUM and never SCALAR: *)
(* the only names of kind SCALAR are String, Int, Float and Boolean, and a *)
(* type entry named ID or JSON has its table parsed as a table of enum     *)
(* values.                                                                 *)
(***************************************************************************)
C30_UpperCaseScalarsAreEnums ==
  parsed # None =>
    \A i \in 1..Len(types) :
      /\ types[i].value.kind = "SCALAR"
           <=> types[i].key \in {"String", "Int", "Float", "Boolean"}
      /\ types[i].key \in {"ID", "JSON"} =>
           /\ types[i].value.kind = "ENUM"
           /\ types[i].value.fields = None
           /\ \A h \in SectionEntries(html, "types") :
                OwnTables(html, h) # {} =>
                  \E j \in OwnTables(html, h) :
                     types[i].value.enumValues = Some(EnumRows(html[j].rows))

C30_Witness ==
  /\ parsed # None
  /\ html = <<H2("Types"), H3("ID"), FieldTable>>
  /\ Get(types, "ID").kind = "ENUM"
  /\ Get(types, "ID").enumValues = Some(EnumRows(FieldTable.rows))


(***************************************************************************)
(* C25  Whatever the interleaving of the tool calls, the fields a handler  *)
(* reads are either all in their initial state or all those of one         *)
(* completed parse: never maps that were cleared and not refilled, never   *)
(* maps of two different parses.                                           *)
(***************************************************************************)
InitialFields ==
  /\ parser = None /\ parsed = None
  /\ endpoints = <<>> /\ queries = <<>> /\ mutations = <<>> /\ types = <<>>

\* The map holds the entries of the object obj and no other.
HoldsEntriesOf(map, obj) ==
  {map[i] : i \in 1..Len(map)} = {obj[j] : j \in 1..Len(obj)}

OfOneParse(d) ==
  LET p == parseAll(d)
  IN /\ parsed = Some(p)
     /\ endpoints = p.endpoints
     /\ HoldsEntriesOf(queries, p.queries)
     /\ HoldsEntriesOf(mutations, p.mutations)
     /\ HoldsEntriesOf(types, p.types)

FetchRejected == \E i \in 1..Len(pending) : reject(i)

NonSuccessResponse == \E i \in 1..Len(pending) : respond(i, ErrorPage)

C26_FailedFetchKeepsCatalog ==
  [][(FetchRejected \/ NonSuccessResponse)
       => UNCHANGED <<queries, mutations, types, endpoints>>]_vars

(***************************************************************************)
(* C27  A non-empty queries, mutations or types map implies that the       *)
(* parser is set; a search on a server without parser is answered only     *)
(* after a fetch, never with "Documentation not loaded", and the only      *)
(* failure a search reports is that of the fetch.                          *)
(***************************************************************************)
SearchAnswered ==
  /\ result' # None
  /\ result'.tool = "search_superops_docs"
  /\ \/ Len(pending') < Len(pending)
     \/ UNCHANGED <<pending, html>>

MapsImplyParser ==
  (Len(queries) > 0 \/ Len(mutations) > 0 \/ Len(types) > 0) => parser # None

C27_ColdSearchFetchesFirst ==
  /\ []MapsImplyParser
  /\ [][SearchAnswered =>
          /\ parser = None =>
               \E i \in 1..Len(pending) :
                  /\ pending[i].tool = "search_superops_docs"
                  /\ pending[i].pc = "fetch"
                  /\ pending' = Without(pending, i)
          /\ "text" \in DOMAIN result' =>
               result'.text = "Error: Failed to fetch documentation: network"]_vars

\* A search that began on a server without parser goes on after its fetch.
C27_Witness ==
  /\ \E i \in 1..Len(pending) :
        pending[i].tool = "search_superops_docs" /\ pending[i].pc = "resume"
  /\ Len(queries) > 0
  /\ parser # None

(***************************************************************************)
(* C28  Every tool call ends in an answer.  The answer to an unknown tool  *)
(* name, to a failed fetch and to an unknown query or type name is a text  *)
(* beginning "Error: ", and the failure leaves the catalog and the other   *)
(* calls in flight as they were.                                           *)
(***************************************************************************)
KnownTools ==
  {"fetch_superops_documentation", "search_superops_docs", "get_superops_query_info",
   "get_superops_mutation_info", "get_superops_type_info", "list_superops_operations",
   "get_superops_api_endpoints", "generate_superops_request"}

CallEnds ==
  \/ Len(pending') < Len(pending)
  \/ UNCHANGED <<pending, html>>

UnknownName ==
  \/ result'.tool = "get_superops_query_info" /\ ~HasKey(queries', result'.name)
  \/ result'.tool = "get_superops_type_info" /\ ~HasKey(types', result'.name)

Failure == FetchRejected \/ result'.tool \notin KnownTools \/ UnknownName

Earliest(sel) == CHOOSE i \in sel : \A j \in sel : i <= j

Later(new, old) == new = {} \/ Earliest(new) > Earliest(old)

\* The cursor the scan leaves according to the operators of the extractors.
LeftAt(loop, d, from) ==
  CASE loop = "returnType" -> ReturnTypeLoop(d, from).cur
    [] loop = "arguments" -> ArgumentsLoop(d, from).cur
    [] loop = "example" -> ExampleScan(d, from).cur
    [] loop = "fields" -> FieldsLoop(d, from).cur

Iterated ==
  /\ walk # None /\ walk' # None
  /\ \/ walk'[1].done
     \/ Later(walk'[1].cursor, walk[1].cursor)

Left ==
  /\ walk # None /\ walk' = None
  /\ walk[1].steps <= Len(html)
  /\ \/ walk[1].done
     \/ walk[1].cursor = {}
     \/ Is(html, walk[1].cursor, Headings)
  /\ walk[1].loop \in {"returnType", "arguments", "example", "fields"}
       => walk[1].cursor = LeftAt(walk[1].loop, html, walk[1].from)

\* A loop that has been entered can make its next iteration or be left.
GoesOn == walk # None => (walk[1].steps <= Len(html) /\ ENABLED (iterate \/ leave))

C29_LoopsEnd ==
  /\ []GoesOn
  /\ [][walk # None => (Iterated \/ Left)]_vars

\* The arguments scan has stepped over two nodes at once and goes on.
C29_Witness ==
  /\ walk # None
  /\ walk[1].loop = "arguments"
  /\ walk[1].steps = 1
  /\ ~walk[1].done
  /\ walk[1].cursor # {}
  /\ \E i \in walk[1].from : Earliest(walk[1].cursor) >= i + 2

====
